---------------------------- MODULE Spec2Model ----------------------------
(***************************************************************************)
(* Verification model of the audio analysis toolkit (analysis/compare.py,  *)
(* analysis/thd.py, analysis/compressor.py).                               *)
(*                                                                         *)
(* The analysis functions are pure: each family of functions has its own   *)
(* input and output variables, a specification whose Init draws the inputs *)
(* from bounded sets, and one action per function that applies it.  The    *)
(* variables of the families a specification does not use are parked at    *)
(* fixed idle values.                                                      *)
(*                                                                         *)
(* Waveforms are mono buffers: sequences of integer sample values.  Python *)
(* indices are 0-based; the sequences here are 1-based, so Python's x[i]   *)
(* is x[i + 1].                                                            *)
(***************************************************************************)
EXTENDS Integers, Sequences, FiniteSets, TLC

VARIABLES
    ref,              \* align_signals: the reference buffer
    target,           \* align_signals: the target buffer
    max_lag_samples,  \* align_signals: None or the lag bound
    prefer_onset,     \* align_signals: the onset preference flag
    delay,            \* step stimulus only: the delay d the target was built with
    align_out,        \* what align_signals returned (or that it has not run / raised)
    g_ref,            \* gain_match: the reference buffer x
    g_target,         \* gain_match: the target buffer
    stable_region,    \* gain_match: (s, e), in twentieths of the length
    scale_k,          \* gain_match: the scalar k = <<num, den>> the target was built with
    gain_out,         \* what gain_match returned
    norm_data,        \* normalize_thd_result: the input mapping
    norm_out,         \* what normalize_thd_result returned, or the exception it raised
    thd_args,         \* compute_thd: its arguments and the power spectrum of the windowed signal
    thd_out,          \* what compute_thd returned, or the exception it raised
    comp_args,        \* compressor sweep: fs, freq, amp_max and what the device under test does
    comp_tone,        \* what build_stepped_tone returned
    comp_rx,          \* the captured response
    comp_out,         \* what compression_curve returned
    live_tone,        \* what generate_compressor_tone returned
    live_out,         \* what analyze_compressor_capture returned
    ar_args,          \* attack_release_times: the signal, fs and win_ms
    ar_out,           \* what attack_release_times returned
    res_args,         \* residual_metrics: reference, target and stable region
    res_out,          \* what residual_metrics returned, or the exception it raised
    cmp_entries,      \* run_compare_cases: the configured entries
    cmp_pos,          \* number of entries the loop has finished
    cmp_results,      \* the BenchCase records appended so far
    cmp_calls,        \* analysis functions invoked by the loop: <<function, entry>>
    cmp_raised,       \* an analysis call of the loop raised
    pair_args,        \* _analyze_pair: what read_wav gives for the two paths
    pair_out,         \* log lines and analysis calls of _analyze_pair
    sd_available,     \* the sounddevice module was imported
    stop_event,       \* self.stop_event
    worker,           \* self.worker: no thread yet, or the last thread started
    threads,          \* every thread started so far, with the position of its task
    start_log,        \* one record per call of _start_thread
    mem_heap,         \* the sample storage of every array: block number -> samples
    mem_args,         \* the two arrays passed in, and their samples at the call
    mem_ret,          \* the arrays a function returned
    max_windows,      \* PlotWindowManager.max_windows
    windows,          \* PlotWindowManager.windows: the tracked windows, oldest first
    destroyed,        \* the windows whose Toplevel has been destroyed
    created,          \* number of Toplevels created so far
    last_op           \* the last operation: the list before it and what it closed

alignVars == <<ref, target, max_lag_samples, prefer_onset, delay, align_out>>
gainVars == <<g_ref, g_target, stable_region, scale_k, gain_out>>
normVars == <<norm_data, norm_out>>
thdVars == <<thd_args, thd_out>>
compVars == <<comp_args, comp_tone, comp_rx, comp_out, live_tone, live_out>>
arVars == <<ar_args, ar_out>>
resVars == <<res_args, res_out>>
cmpVars == <<cmp_entries, cmp_pos, cmp_results, cmp_calls, cmp_raised, pair_args, pair_out>>
taskVars == <<sd_available, stop_event, worker, threads, start_log>>
memVars == <<mem_heap, mem_args, mem_ret>>
plotVars == <<max_windows, windows, destroyed, created, last_op>>

vars == <<alignVars, gainVars, normVars, thdVars, compVars, arVars, resVars, cmpVars, taskVars
    , memVars, plotVars>>

\* Python's None and a present value, as the empty and the one-element tuple.
None == <<>>
Some(x) == <<x>>
Val(o) == o[1]

\* The output variable of a function that has not been called yet.
NotRun == [called |-> FALSE]

(***************************************************************************)
(* Bounds of the model.                                                    *)
(***************************************************************************)
MaxLen == 3        \* longest buffer in the general alignment specification
MaxLagBound == 2   \* largest max_lag_samples drawn
MaxStepLen == 5    \* longest unit step reference
MaxDelay == 2      \* largest |d| of the delayed step
MaxGainLen == 4    \* longest buffer given to gain_match
MaxKeys == 3       \* most keys in a mapping given to normalize_thd_result
MaxSigLen == 4     \* longest signal given to compute_thd
MaxHarm == 3       \* largest max_h given to compute_thd
MaxCutBack == 6    \* most samples a capture may miss at its end, sample by sample
MaxEnvLen == 11    \* longest signal given to attack_release_times
MaxResLen == 3     \* longest buffer given to residual_metrics
MaxEntries == 2    \* most entries in one compare configuration
MaxRequests == 3   \* most task-start requests in one run
MaxMemLen == 2     \* longest array whose storage is tracked
MaxWindows == 3       \* largest max_windows of a PlotWindowManager
MaxOpenings == 6      \* snapshot windows opened in one run

(***************************************************************************)
(* Generic helpers (numpy / Python primitives).                            *)
(***************************************************************************)
Abs(x) == IF x < 0 THEN -x ELSE x
Min(a, b) == IF a < b THEN a ELSE b
Max(a, b) == IF a > b THEN a ELSE b

\* Python's clamping of one slice index against a buffer of length n:
\* a negative index counts from the end, and the result is clipped to 0..n.
SliceIdx(i, n) == IF i < 0 THEN Max(i + n, 0) ELSE Min(i, n)

\* Python's s[start:stop] for integer start and stop (either may be negative).
PySlice(s, start, stop) ==
    LET lo == SliceIdx(start, Len(s))
        hi == SliceIdx(stop, Len(s))
    IN  IF lo < hi THEN SubSeq(s, lo + 1, hi) ELSE <<>>

\* Python's s[:stop] and s[start:].
PySliceTo(s, stop) == PySlice(s, 0, stop)
PySliceFrom(s, start) == PySlice(s, start, Len(s))

\* np.abs element-wise.
AbsSeq(x) == [i \in 1..Len(x) |-> Abs(x[i])]

\* np.max of a non-empty buffer.
RECURSIVE MaxUpTo(_, _)
MaxUpTo(x, n) == IF n = 1 THEN x[1] ELSE Max(MaxUpTo(x, n - 1), x[n])
NpMax(x) == MaxUpTo(x, Len(x))

\* np.argmax: the 0-based index of the first occurrence of the maximum.
NpArgmax(x) == (CHOOSE i \in 1..Len(x) :
                   /\ x[i] = NpMax(x)
                   /\ \A j \in 1..(i - 1) : x[j] # x[i]) - 1

\* Sum of f[i] for i in lo..hi.
RECURSIVE SumFn(_, _, _)
SumFn(f, lo, hi) == IF lo > hi THEN 0 ELSE f[hi] + SumFn(f, lo, hi - 1)

(***************************************************************************)
(* analysis/compare.py                                                     *)
(***************************************************************************)

\* _to_mono: float32 conversion (exact on the small integers used here) and
\* channel 0 of a 2-D array; the buffers of the model are 1-D already.
to_mono(x) == [i \in 1..Len(x) |-> x[i]]

\* The kernel width `win` of _smooth_abs.
SmoothWin == 256

\* np.convolve(mag, ones(win)/win, mode='same') for Len(mag) >= win, times win
\* (the common positive factor 1/win does not change an argmax): output i
\* (0-based) is the full convolution at i + (win-1)//2, i.e. the sum of
\* mag[k] for k in i + (win-1)//2 - (win-1) .. i + (win-1)//2.
ConvolveSame(mag, win) ==
    [i \in 1..Len(mag) |->
        LET hiK == (i - 1) + ((win - 1) \div 2)
            loK == hiK - (win - 1)
        IN  SumFn(mag, Max(loK, 0) + 1, Min(hiK, Len(mag) - 1) + 1)]

\* _smooth_abs(x, win): |x|, smoothed only when the buffer has at least win samples.
smooth_abs(x, win) ==
    LET mag == AbsSeq(x)
    IN  IF Len(mag) < win THEN mag ELSE ConvolveSame(mag, win)

\* np.correlate(a, v, mode='full'): output index i (0-based) is lag
\* k = i - (len(v) - 1), c[i] = sum over n of a[n + k] * v[n].
\* Returned as a 1-based sequence of length len(a) + len(v) - 1.
CorrAt(a, v, k) ==
    LET lo == Max(0, -k)
        hi == Min(Len(v) - 1, Len(a) - 1 - k)
        prod == [n \in (lo + 1)..(hi + 1) |-> a[n + k] * v[n]]
    IN  SumFn(prod, lo + 1, hi + 1)

NpCorrelateFull(a, v) ==
    [i \in 1..(Len(a) + Len(v) - 1) |-> CorrAt(a, v, (i - 1) - (Len(v) - 1))]

\* onset_idx: first index whose |sample| exceeds 0.1 * (peak + 1e-12), else 0.
\* On integer samples |x| > 0.1 * (peak + 1e-12) is 10 * |x| > peak.
onset_idx(raw) ==
    LET abs_raw == AbsSeq(raw)
        peak == NpMax(abs_raw)
        idxs == {i \in 1..Len(raw) : 10 * abs_raw[i] > peak}
    IN  IF idxs # {} THEN (CHOOSE i \in idxs : \A j \in idxs : i <= j) - 1 ELSE 0

\* Mutant of lag_corr_of: the argmax is taken over the whole correlation.
lag_corr_of_unwindowed(refB, tgtB, maxLag) ==
    LET ref_mono == smooth_abs(to_mono(refB), SmoothWin)
        tgt_mono == smooth_abs(to_mono(tgtB), SmoothWin)
    IN  NpArgmax(NpCorrelateFull(tgt_mono, ref_mono)) - (Len(ref_mono) - 1)

\* Lines 32-38: the lag of the envelope cross-correlation maximum, searched
\* in the window of max_lag around the centre when a bound is given.
lag_corr_of(refB, tgtB, maxLag) ==
    LET ref_mono == smooth_abs(to_mono(refB), SmoothWin)
        tgt_mono == smooth_abs(to_mono(tgtB), SmoothWin)
        corr == NpCorrelateFull(tgt_mono, ref_mono)
        center == Len(ref_mono) - 1
    IN  IF maxLag = None
        THEN NpArgmax(corr) - center
        ELSE LET wstart == Max(0, center - Val(maxLag))
                 wstop == Min(Len(corr), center + Val(maxLag) + 1)
                 subcorr == PySlice(corr, wstart, wstop)
             IN  NpArgmax(subcorr) + wstart - center

\* Mutant of lag_onset_of: reference onset minus target onset.
lag_onset_of_swapped(refB, tgtB) == onset_idx(to_mono(refB)) - onset_idx(to_mono(tgtB))

\* Line 46.
lag_onset_of(refB, tgtB) == onset_idx(to_mono(tgtB)) - onset_idx(to_mono(refB))

\* Mutant of choose_lag: the onset lag wins whenever prefer_onset is set.
choose_lag_always_onset(lagOnset, lagCorr, prefer) ==
    IF prefer THEN lagOnset ELSE lagCorr

\* Line 47: which lag is used.
choose_lag(lagOnset, lagCorr, prefer) ==
    IF prefer /\ lagOnset # 0 THEN lagOnset ELSE lagCorr

\* Mutant of apply_shift: the target is not advanced by a positive lag and
\* the reference is not advanced by a negative one.
apply_shift_unshifted(refB, tgtB, lag) ==
    LET n == Min(Len(refB), Len(tgtB)) - Abs(lag)
    IN  [aligned_ref |-> PySliceTo(refB, Max(n, 0)),
         aligned_tgt |-> PySliceTo(tgtB, Max(n, 0)),
         lag |-> lag]

\* Lines 49-57: the shift and the truncation to a common length.
apply_shift(refB, tgtB, lag) ==
    LET aligned_ref == IF lag >= 0
                       THEN PySliceTo(refB, Len(refB) - lag)
                       ELSE PySlice(refB, -lag, -lag + Len(tgtB))
        aligned_tgt == IF lag >= 0
                       THEN PySlice(tgtB, lag, lag + Len(aligned_ref))
                       ELSE PySliceTo(tgtB, Len(aligned_ref))
        min_len == Min(Len(aligned_ref), Len(aligned_tgt))
    IN  [aligned_ref |-> PySliceTo(aligned_ref, min_len),
         aligned_tgt |-> PySliceTo(aligned_tgt, min_len),
         lag |-> lag]

\* align_signals.  np.correlate (and np.max) raise ValueError on an empty buffer.
align_signals(refB, tgtB, maxLag, prefer) ==
    IF Len(refB) = 0 \/ Len(tgtB) = 0
    THEN [called |-> TRUE, raised |-> TRUE]
    ELSE LET lag == choose_lag(lag_onset_of(refB, tgtB),
                               lag_corr_of(refB, tgtB, maxLag), prefer)
             r == apply_shift(refB, tgtB, lag)
         IN  [called |-> TRUE, raised |-> FALSE, aligned_ref |-> r.aligned_ref,
              aligned_tgt |-> r.aligned_tgt, lag |-> r.lag]

(***************************************************************************)
(* Inputs and specifications of the alignment family.                      *)
(***************************************************************************)
Samples == {0, 1, -20}

Buffers(maxLen) == UNION {[1..n -> Samples] : n \in 0..maxLen}

LagBounds == {None} \cup {Some(b) : b \in 0..MaxLagBound}

\* The unit step of tests/test_compare.py: `onset` zeros, then ones up to length n.
UnitStep(onset, n) == [i \in 1..n |-> IF i > onset THEN 1 ELSE 0]

\* The step delayed by d in a buffer of m samples, followed by `tail` zeros
\* (for a negative delay _make_step drops the first -d samples of the
\* reference and pads -d trailing zeros, keeping the reference's length).
DelayedStep(onset, d, m, tail) == UnitStep(onset + d, m) \o [i \in 1..tail |-> 0]

AlignInit ==
    /\ ref \in Buffers(MaxLen)
    /\ target \in Buffers(MaxLen)
    /\ max_lag_samples \in LagBounds
    /\ prefer_onset \in BOOLEAN
    /\ delay = None
    /\ align_out = NotRun

StepInit ==
    /\ \E n \in 1..MaxStepLen, o \in 0..(MaxStepLen - 1), d \in (-MaxDelay)..MaxDelay,
          m \in 1..(MaxStepLen + MaxDelay), tail \in 0..MaxDelay :
        /\ o < n
        /\ o + d >= 0
        /\ o + d < m
        /\ tail \in {0} \cup (IF d < 0 /\ m = n + d THEN {-d} ELSE {})
        /\ ref = UnitStep(o, n)
        /\ target = DelayedStep(o, d, m, tail)
        /\ delay = Some(d)
        /\ max_lag_samples \in {Some(b) : b \in Abs(d)..(MaxDelay + 1)}
    /\ prefer_onset = TRUE
    /\ align_out = NotRun

\* The alignment variables when a specification does not use them.
AlignIdle ==
    /\ ref = <<>>
    /\ target = <<>>
    /\ max_lag_samples = None
    /\ prefer_onset = TRUE
    /\ delay = None
    /\ align_out = NotRun

\* One call of align_signals on the drawn inputs.
AlignCall ==
    /\ align_out = NotRun
    /\ align_out' = align_signals(ref, target, max_lag_samples, prefer_onset)
    /\ UNCHANGED <<ref, target, max_lag_samples, prefer_onset, delay>>

(***************************************************************************)
(* gain_match (analysis/compare.py, lines 60-79).                          *)
(*                                                                         *)
(* Samples given to gain_match are integers in units of 1e-6, so that the  *)
(* 1e-12 added to every mean square is exactly 1 squared unit.  A mean     *)
(* square is the exact rational <<sum, count>>; sqrt and log10 are         *)
(* monotone, so the RMS values, the gain and the gain in dB are carried by *)
(* the exact rational gain^2 and compared by cross-multiplication.         *)
(***************************************************************************)
NaN == [nan |-> TRUE]

\* Sum of the squares of a buffer.
RECURSIVE SumSq(_)
SumSq(x) == IF x = <<>> THEN 0 ELSE Head(x) * Head(x) + SumSq(Tail(x))

\* np.mean(slice ** 2) + 1e-12 as <<numerator, denominator>>; np.mean of an
\* empty slice is NaN.
MeanSqPlusEps(x) ==
    IF Len(x) = 0 THEN NaN ELSE <<SumSq(x) + Len(x), Len(x)>>

\* int(n * s) for a fraction s = twentieths / 20 (exact for the 0.05 and 0.95
\* of the default region and for the dyadic fractions used here).
RegionIdx(n, twentieths) == (n * twentieths) \div 20

\* Mutant of gain_region: the RMS is always taken over the whole buffer.
gain_region_whole(n, region) == <<0, n>>

\* Lines 67-72: the index range of the stable region; the whole buffer when
\* the range is empty.
gain_region(n, region) ==
    LET s_idx == RegionIdx(n, region[1])
        e_idx == RegionIdx(n, region[2])
    IN  IF e_idx <= s_idx THEN <<0, n>> ELSE <<s_idx, e_idx>>

\* Mutant of gain_match: the gain is rms_tgt / rms_ref.
gain_match_inverted(refB, tgtB, region) ==
    LET rg == gain_region(Len(refB), region)
        rms_ref2 == MeanSqPlusEps(PySlice(refB, rg[1], rg[2]))
        rms_tgt2 == MeanSqPlusEps(PySlice(tgtB, rg[1], rg[2]))
        num == rms_tgt2[1] * rms_ref2[2]
        den == rms_tgt2[2] * rms_ref2[1]
    IN  [called |-> TRUE, isnan |-> FALSE, s_idx |-> rg[1], e_idx |-> rg[2],
         matched |-> tgtB, gain2 |-> <<num, den>>, inv_gain2 |-> <<den, num>>,
         gain_db_sign |-> IF den >= num THEN 1 ELSE -1]

\* gain_match.  rms^2 >= 1e-12 > (1e-12)^2, so max(rms_tgt, 1e-12) never
\* replaces a number; Python's max(nan, 1e-12) is nan.  gain2 is gain^2 =
\* rms_ref^2 / rms_tgt^2.  The buffer returned is target * gain, carried as
\* the target with gain2; gain_db = 20*log10(1/gain + 1e-12) is carried by
\* 1/gain^2 (inv_gain2), and is positive exactly when 1/gain + 1e-12 > 1:
\* when inv_gain2 >= 1; for inv_gain2 = a/b < 1 with b < 2^31,
\* 1/gain <= 1 - 1/(2b) < 1 - 1e-12.
gain_match(refB, tgtB, region) ==
    LET ref_mono == to_mono(refB)
        tgt_mono == to_mono(tgtB)
        n == Len(ref_mono)
        rg == gain_region(n, region)
        ref_slice == PySlice(ref_mono, rg[1], rg[2])
        tgt_slice == PySlice(tgt_mono, rg[1], rg[2])
        rms_ref2 == MeanSqPlusEps(ref_slice)
        rms_tgt2 == MeanSqPlusEps(tgt_slice)
    IN  IF rms_ref2 = NaN \/ rms_tgt2 = NaN
        THEN [called |-> TRUE, isnan |-> TRUE, s_idx |-> rg[1], e_idx |-> rg[2]]
        ELSE LET num == rms_ref2[1] * rms_tgt2[2]
                 den == rms_ref2[2] * rms_tgt2[1]
             IN  [called |-> TRUE, isnan |-> FALSE,
                  s_idx |-> rg[1], e_idx |-> rg[2],
                  matched |-> tgtB,
                  gain2 |-> <<num, den>>,
                  inv_gain2 |-> <<den, num>>,
                  gain_db_sign |-> IF den >= num THEN 1 ELSE -1]

GainSamples == {0, 2, -200}

\* The scalars k = num/den by which the target is scaled.
Scalars == {<<1, 2>>, <<1, 1>>, <<2, 1>>}

\* The stable regions passed: the default (0.05, 0.95), (0.25, 0.75), (0.5, 0.5).
Regions == {<<1, 19>>, <<5, 15>>, <<10, 10>>}

ScaleBy(x, k) == [i \in 1..Len(x) |-> (x[i] * k[1]) \div k[2]]

GainInit ==
    /\ g_ref \in UNION {[1..n -> GainSamples] : n \in 1..MaxGainLen}
    /\ scale_k \in Scalars
    /\ g_target = ScaleBy(g_ref, scale_k)
    /\ stable_region \in Regions
    /\ gain_out = NotRun

GainIdle ==
    /\ g_ref = <<>>
    /\ g_target = <<>>
    /\ stable_region = <<1, 19>>
    /\ scale_k = <<1, 1>>
    /\ gain_out = NotRun

\* One call of gain_match on (x, k * x).
GainCall ==
    /\ gain_out = NotRun
    /\ gain_out' = gain_match(g_ref, g_target, stable_region)
    /\ UNCHANGED <<g_ref, g_target, stable_region, scale_k>>

(***************************************************************************)
(* normalize_thd_result (analysis/thd.py, lines 6-35).                     *)
(*                                                                         *)
(* A mapping is a function from a finite set of keys to Python values.  A  *)
(* Python value is a record with its type in `type`; float(val) returns a  *)
(* float, or raises TypeError (None, a list), ValueError (a string that is *)
(* not a number) or OverflowError (an int too large for a float).          *)
(***************************************************************************)
\* `num` says whether float() can read the value as a number, `v` is that number.
PyFloat(v) == [type |-> "float", num |-> TRUE, v |-> v]
PyNumStr(v) == [type |-> "str", num |-> TRUE, v |-> v]      \* a string such as "3.0"
PyBadStr == [type |-> "str", num |-> FALSE, v |-> 0]        \* a string that is no number
PyNone == [type |-> "NoneType", num |-> FALSE, v |-> 0]
PyList == [type |-> "list", num |-> FALSE, v |-> 0]
PyBigInt == [type |-> "int", num |-> FALSE, v |-> 0]        \* an int beyond the float range, 10**400

PyValues == {PyFloat(1), PyFloat(2), PyNumStr(3), PyBadStr, PyNone, PyList, PyBigInt}

\* float(val): [ok, v] or the exception raised.
float_of(val) ==
    CASE val.type = "float" -> [ok |-> TRUE, v |-> val.v, exc |-> "none"]
      [] val.type = "str" /\ val.num -> [ok |-> TRUE, v |-> val.v, exc |-> "none"]
      [] val.type = "str" /\ ~val.num -> [ok |-> FALSE, v |-> 0, exc |-> "ValueError"]
      [] val.type = "int" /\ ~val.num -> [ok |-> FALSE, v |-> 0, exc |-> "OverflowError"]
      [] OTHER -> [ok |-> FALSE, v |-> 0, exc |-> "TypeError"]

\* Lines 15-23: the alias table, in its iteration order.
Aliases == << <<"thdn", "thdn_db">>, <<"thdn_dB", "thdn_db">>, <<"thdn_db", "thdn_db">>,
              <<"thd+n_db", "thdn_db">>, <<"thd+n", "thdn_db">>, <<"thd_db", "thd_db">>,
              <<"thd", "thd_db">> >>

\* d[key] = val on a dict.
DictSet(d, key, val) ==
    [k \in DOMAIN d \cup {key} |-> IF k = key THEN val ELSE d[k]]

\* Mutant of alias_loop: an alias replaces a canonical key already there.
RECURSIVE alias_loop_overwrite(_, _)
alias_loop_overwrite(normalized, i) ==
    IF i > Len(Aliases) THEN normalized
    ELSE LET key == Aliases[i][1]
             tgt == Aliases[i][2]
         IN  IF key \in DOMAIN normalized /\ key # tgt
             THEN alias_loop_overwrite(DictSet(normalized, tgt, normalized[key]), i + 1)
             ELSE alias_loop_overwrite(normalized, i + 1)

\* Lines 25-27: the alias loop, from alias number i on.
RECURSIVE alias_loop(_, _)
alias_loop(normalized, i) ==
    IF i > Len(Aliases) THEN normalized
    ELSE LET key == Aliases[i][1]
             tgt == Aliases[i][2]
         IN  IF key \in DOMAIN normalized /\ tgt \notin DOMAIN normalized
             THEN alias_loop(DictSet(normalized, tgt, normalized[key]), i + 1)
             ELSE alias_loop(normalized, i + 1)

\* Lines 29-34: the coercion of one canonical key.  TypeError and ValueError
\* are caught and replaced by the fallback; any other exception propagates.
coerce_key(st, key, fallback_db) ==
    IF st.raised THEN st
    ELSE LET val == IF key \in DOMAIN st.dict THEN st.dict[key] ELSE PyFloat(fallback_db)
             f == float_of(val)
         IN  IF f.ok
             THEN [raised |-> FALSE, dict |-> DictSet(st.dict, key, PyFloat(f.v))]
             ELSE IF f.exc \in {"TypeError", "ValueError"}
             THEN [raised |-> FALSE, dict |-> DictSet(st.dict, key, PyFloat(fallback_db))]
             ELSE [raised |-> TRUE, exc |-> f.exc]

\* normalize_thd_result(data, fallback_db).
normalize_thd_result(data, fallback_db) ==
    LET normalized == alias_loop(data, 1)
        st0 == [raised |-> FALSE, dict |-> normalized]
        st1 == coerce_key(st0, "thd_db", fallback_db)
        st2 == coerce_key(st1, "thdn_db", fallback_db)
    IN  IF st2.raised
        THEN [called |-> TRUE, raised |-> TRUE, exc |-> st2.exc]
        ELSE [called |-> TRUE, raised |-> FALSE, dict |-> st2.dict]

NormKeys == {"thd_db", "thd", "thdn_db", "thdn", "thdn_dB", "thd+n_db", "thd+n", "fs"}

NormInit ==
    /\ \E ks \in SUBSET NormKeys :
        /\ Cardinality(ks) <= MaxKeys
        /\ norm_data \in [ks -> PyValues]
    /\ norm_out = NotRun

NormIdle ==
    /\ norm_data = << >>
    /\ norm_out = NotRun

\* One call of normalize_thd_result with the default fallback 0.0.
NormCall ==
    /\ norm_out = NotRun
    /\ norm_out' = normalize_thd_result(norm_data, 0)
    /\ UNCHANGED norm_data

(***************************************************************************)
(* compute_thd (analysis/thd.py, lines 38-129).                            *)
(*                                                                         *)
(* The FFT itself is not computed: the power spectrum |rfft(sig*win)|^2 is *)
(* an input, any sequence of nfft_use \div 2 + 1 non-negative bins.  Power *)
(* is counted in units of 1e-24, so the guard term 1e-24 is one unit.  The *)
(* ratios are kept squared, as pairs <<numerator, denominator>>; thd_db    *)
(* and thdn_db are increasing functions of them.                           *)
(***************************************************************************)
\* Mutant of window_supported: only "hann" and "none" pass.
window_supported_strict(window) == window \in {Some("hann"), Some("none")}
\* Lines 59-65: the window check.
window_supported(window) ==
    window \in {Some("hann"), Some("hanning"), None, Some("none")}

\* Line 58: nfft_use = int(nfft) if nfft else len(sig).
nfft_use_of(nfft, sigLen) ==
    IF nfft # None /\ Val(nfft) # 0 THEN Val(nfft) ELSE sigLen

\* Lines 72-74: power[0] = 0.0.
ZeroDC(power) == [i \in 1..Len(power) |-> IF i = 1 THEN 0 ELSE power[i]]

\* Lines 69, 76, 87: np.argmin(np.abs(freqs - f)) with freqs[i] = i*fs/nfft_use,
\* as a 0-based bin; the first bin of least distance wins.
nearest_bin(nbins, fs, nfftUse, f) ==
    LET dist(i) == Abs(i * fs - f * nfftUse)
    IN  CHOOSE i \in 0..(nbins - 1) :
            /\ \A j \in 0..(nbins - 1) : dist(i) <= dist(j)
            /\ \A j \in 0..(i - 1) : dist(j) > dist(i)

\* Mutant of band_of: the band is not kept off bin 0.
band_of_with_dc(idx, band_bins, nbins) ==
    [start |-> Max(idx - band_bins, 0), stop |-> Min(idx + band_bins + 1, nbins)]

\* Lines 78-79 and 88-89: the band around bin idx, as the slice [start, stop).
band_of(idx, band_bins, nbins) ==
    [start |-> Max(idx - band_bins, 1), stop |-> Min(idx + band_bins + 1, nbins)]

\* np.sum(power[start:stop]) over 0-based bins.
band_power(power, band) ==
    SumFn(power, band.start + 1, Min(band.stop, Len(power)))

\* Lines 76-80 (h = 1) and 87-89 (h >= 2): the band summed for component h.
component_band(nbins, fs, nfftUse, freq, band_bins, h) ==
    band_of(nearest_bin(nbins, fs, nfftUse, h * freq), band_bins, nbins)

\* Lines 86-93: the harmonic loop, h = 2..max_h.
RECURSIVE harmonic_power_sum(_, _, _, _, _, _, _)
harmonic_power_sum(power, fs, nfftUse, freq, band_bins, h, max_h) ==
    IF h > max_h THEN 0
    ELSE band_power(power, component_band(Len(power), fs, nfftUse, freq, band_bins, h))
             + harmonic_power_sum(power, fs, nfftUse, freq, band_bins, h + 1, max_h)

\* compute_thd(signal, fs, freq, max_h, window, fundamental_band_bins, nfft).
compute_thd(a) ==
    IF ~window_supported(a.window)
    THEN [called |-> TRUE, raised |-> TRUE, exc |-> "ValueError: Unsupported window"]
    ELSE LET nfftUse == nfft_use_of(a.nfft, a.sig_len)
             power == ZeroDC(a.power)
             nbins == Len(power)
             fund_idx == nearest_bin(nbins, a.fs, nfftUse, a.freq)
             band_bins == Max(1, a.fundamental_band_bins)
             fund_band == component_band(nbins, a.fs, nfftUse, a.freq, band_bins, 1)
             fund_power == band_power(power, fund_band) + 1
             power_sum == harmonic_power_sum(power, a.fs, nfftUse, a.freq,
                                             band_bins, 2, a.max_h)
             power_total == SumFn(power, 1, nbins)
             noise_power == Max(power_total - fund_power, 0)
         IN  [called |-> TRUE, raised |-> FALSE,
              fund_idx |-> fund_idx,
              fund_band |-> fund_band,
              bands |-> [h \in 1..a.max_h |->
                            component_band(nbins, a.fs, nfftUse, a.freq, band_bins, h)],
              fund_power |-> fund_power,
              thd_ratio2 |-> <<power_sum, fund_power>>,
              thdn_ratio2 |-> <<noise_power, fund_power>>,
              fs |-> a.fs,
              fund_freq |-> a.freq,
              nfft |-> nfftUse,
              window |-> IF a.window = Some("hanning") THEN Some("hann") ELSE a.window,
              fund_band_bins |-> band_bins]

Windows == {Some("hann"), Some("hanning"), Some("none"), None,
            Some("Hann"), Some("blackman"), Some("")}
PowerValues == {0, 1, 1000}

ThdInit ==
    /\ \E sigLen \in 1..MaxSigLen, nfft \in {None, Some(0), Some(MaxSigLen + 2)},
          window \in Windows, fs \in {4, 8}, freq \in 1..3,
          max_h \in 1..MaxHarm, bb \in 0..2 :
        \E power \in [1..(nfft_use_of(nfft, sigLen) \div 2 + 1) -> PowerValues] :
            thd_args = [sig_len |-> sigLen, nfft |-> nfft, window |-> window,
                        fs |-> fs, freq |-> freq, max_h |-> max_h,
                        fundamental_band_bins |-> bb, power |-> power]
    /\ thd_out = NotRun

ThdIdle ==
    /\ thd_args = << >>
    /\ thd_out = NotRun

\* One call of compute_thd.
ThdCall ==
    /\ thd_args # << >>
    /\ thd_out = NotRun
    /\ thd_out' = compute_thd(thd_args)
    /\ UNCHANGED thd_args

(***************************************************************************)
(* analysis/compressor.py: build_stepped_tone and compression_curve.       *)
(*                                                                         *)
(* Amplitudes are integers in units of 1/1400 of full scale, so that the   *)
(* 36 levels of np.linspace(0.05, amp_max, 36) are exact for the ceilings  *)
(* used.  Levels in dB are integers in tenths of a dB, computed by a       *)
(* fixed-point logarithm; NaN is carried explicitly.                       *)
(***************************************************************************)
NumLevels == 36                 \* np.linspace(0.05, amp_max, 36)
AmpMin == 70                    \* the first level, 0.05
FullScale == 20 * AmpMin        \* amplitude 1.0
FloorDb == -2400                \* 20*log10(1e-12), in tenths of a dB

Float(v) == [nan |-> FALSE, v |-> v]
FloatNaN == [nan |-> TRUE, v |-> 0]

RECURSIVE FloorLog2(_)
FloorLog2(x) == IF x < 2 THEN 0 ELSE 1 + FloorLog2(x \div 2)

\* The k fractional bits of log2 of the mantissa m (Q14, in [2^14, 2^15)).
RECURSIVE FracBits(_, _)
FracBits(m, k) ==
    IF k = 0 THEN 0
    ELSE LET sq == (m * m) \div (2^14)
         IN  IF sq >= 2^15 THEN 2^(k - 1) + FracBits(sq \div 2, k - 1)
             ELSE FracBits(sq, k - 1)

\* log2(x) * 1024 for an integer x >= 1.
Log2Q10(x) ==
    LET e == FloorLog2(x)
        m == IF e >= 14 THEN x \div (2^(e - 14)) ELSE x * (2^(14 - e))
    IN  e * 1024 + FracBits(m, 10)

\* 10*log10(x) in tenths of a dB, for an integer x >= 1.
DeciDb(x) == (Log2Q10(x) * 30103) \div 1024000

\* int(c * fs) for c = pct/100 (lines 80, 83, 84, 89-93).
IntOf(pct, fs) == (pct * fs) \div 100

\* np.sin(2*pi*freq*t_seg)[j] for freq = fs/4: a quarter turn per sample.
QuarterSin(j) == <<0, 1, 0, -1>>[(j % 4) + 1]

\* build_stepped_tone(freq, fs, amp_max) with freq = fs/4.
build_stepped_tone(fs, amp_max) ==
    LET amps == [i \in 1..NumLevels |->
                    AmpMin + ((i - 1) * (amp_max - AmpMin)) \div (NumLevels - 1)]
        protect == amp_max
        seg == IntOf(25, fs)
        gap == IntOf(5, fs)
        tx == [k \in 1..(NumLevels * (seg + gap)) |->
                  LET i == (k - 1) \div (seg + gap)
                      j == (k - 1) % (seg + gap)
                  IN  IF j < seg THEN Min(amps[i + 1], protect) * QuarterSin(j) ELSE 0]
    IN  [called |-> TRUE,
         signal |-> tx,
         meta |-> [seg_samples |-> seg,
                   gap_samples |-> gap,
                   amps |-> amps,
                   trim_lead |-> IntOf(3, fs),
                   trim_tail |-> IntOf(1, fs)]]

\* Line 110: 20*log10(max(A / sqrt(2), 1e-12)).
rin_db(A) ==
    IF A <= 0 THEN FloorDb
    ELSE DeciDb(A * A) - DeciDb(2 * FullScale * FullScale)

\* Line 111: 20*log10(max(sqrt(mean(square(seg))), 1e-12)).  The mean of an
\* empty segment is NaN, and max(NaN, 1e-12) is NaN.
rout_db(seg) ==
    IF Len(seg) = 0 THEN FloatNaN
    ELSE IF SumSq(seg) = 0 THEN Float(FloorDb)
    ELSE Float(DeciDb(SumSq(seg)) - DeciDb(Len(seg) * FullScale * FullScale))

\* Mutant of trimmed_segment: the segment is sliced without the gaps.
trimmed_segment_no_gap(sig, meta, i) ==
    LET s0 == (i - 1) * meta.seg_samples
        seg == PySlice(sig, s0, s0 + meta.seg_samples)
    IN  PySlice(seg, meta.trim_lead, Max(meta.trim_lead, Len(seg) - meta.trim_tail))

\* Lines 106-109: the trimmed measurement window of level i (1-based).
trimmed_segment(sig, meta, i) ==
    LET s0 == (i - 1) * (meta.seg_samples + meta.gap_samples)
        s1 == s0 + meta.seg_samples
        seg == PySlice(sig, s0, s1)
    IN  PySlice(seg, meta.trim_lead, Max(meta.trim_lead, Len(seg) - meta.trim_tail))

\* np.polyfit(x, y, 1) on finite points with at least two distinct x: the
\* least-squares slope is p/q with q > 0, the line passes through the means.
\* The sums are taken about the floored means so that they stay small.
polyfit1(x, y) ==
    LET N == Len(x)
        sum_x == SumFn(x, 1, N)
        sum_y == SumFn(y, 1, N)
        c == sum_x \div N
        d == sum_y \div N
        Su == sum_x - N * c
        Sv == sum_y - N * d
        Suv == SumFn([i \in 1..N |-> (x[i] - c) * (y[i] - d)], 1, N)
        Suu == SumFn([i \in 1..N |-> (x[i] - c) * (x[i] - c)], 1, N)
    IN  [p |-> N * Suv - Su * Sv, q |-> N * Suu - Su * Su,
         sum_x |-> sum_x, sum_y |-> sum_y, n |-> N]

\* x[mask]: the elements of x whose index is in mask, in order.
RECURSIVE Masked(_, _, _)
Masked(x, mask, i) ==
    IF i > Len(x) THEN << >>
    ELSE IF i \in mask THEN <<x[i]>> \o Masked(x, mask, i + 1)
    ELSE Masked(x, mask, i + 1)

RatioOne == [e12 |-> FALSE, num |-> 1, den |-> 1]
ThrNaN == [nan |-> TRUE, a |-> <<0, 1>>, mean_x |-> <<0, 1>>, mean_y |-> <<0, 1>>]

\* Mutant of too_few_points: a single point below -0.5 dB is enough for a fit.
too_few_points_strict(count) == count < 1
\* Line 129: fewer than 2 points below -0.5 dB.
too_few_points(count) == count < 2

\* compression_curve(sig, meta, fs, freq).
compression_curve(sig, meta) ==
    LET amps == meta.amps
        N == Len(amps)
        rms_in_db == [i \in 1..N |-> rin_db(amps[i])]
        rms_out_db == [i \in 1..N |-> rout_db(trimmed_segment(sig, meta, i))]
        anyNaN == \E i \in 1..N : rms_out_db[i].nan
        diff == [i \in 1..N |->
                    IF rms_out_db[i].nan THEN FloatNaN
                    ELSE Float(rms_out_db[i].v - rms_in_db[i])]
        \* a_all, b_all = np.polyfit(rms_in_db, rms_out_db, 1): NaN if any y is NaN
        fit_all == polyfit1(rms_in_db, [i \in 1..N |-> rms_out_db[i].v])
        gain_offset_db ==
            IF anyNaN THEN [nan |-> TRUE, num |-> 0, den |-> 1]
            ELSE [nan |-> FALSE, num |-> SumFn([i \in 1..N |-> diff[i].v], 1, N), den |-> N]
        \* abs(a_all - 1.0) < 0.05
        slope_ok == ~anyNaN /\ Abs(fit_all.p - fit_all.q) <= (fit_all.q - 1) \div 20
        \* diff.max() - diff.min() < 1.0
        spread_ok == /\ ~anyNaN
                     /\ NpMax([i \in 1..N |-> diff[i].v])
                          + NpMax([i \in 1..N |-> -diff[i].v]) < 10
        global_ok == slope_ok /\ spread_ok
        \* mask = diff < -0.5 (false where diff is NaN)
        mask == {i \in 1..N : ~diff[i].nan /\ diff[i].v < -5}
        fit == polyfit1(Masked(rms_in_db, mask, 1),
                        Masked([i \in 1..N |-> rms_out_db[i].v], mask, 1))
        \* ratio = 1.0 / max(a, 1e-12)
        ratio == IF fit.p <= 0 THEN [e12 |-> TRUE, num |-> 1, den |-> 1]
                 ELSE [e12 |-> FALSE, num |-> fit.q, den |-> fit.p]
        \* thr = b / (1 - a) if abs(1 - a) > 1e-6 else nan
        thr == IF Abs(fit.q - fit.p) > fit.q \div 1000000
               THEN [nan |-> FALSE, a |-> <<fit.p, fit.q>>,
                     mean_x |-> <<fit.sum_x, fit.n>>, mean_y |-> <<fit.sum_y, fit.n>>]
               ELSE ThrNaN
        no_compression == global_ok \/ too_few_points(Cardinality(mask))
    IN  [called |-> TRUE,
         in_db |-> rms_in_db,
         out_db |-> rms_out_db,
         gain_offset_db |-> gain_offset_db,
         no_compression |-> no_compression,
         thr_db |-> IF no_compression THEN ThrNaN ELSE thr,
         ratio |-> IF no_compression THEN RatioOne ELSE ratio]

\* The sweeps run: sample rates, ceilings (0.025, 0.1 and 1.0 of full scale)
\* and what the device under test does to a sample.
SampleRates == {16, 20, 100}
AmpMaxes == {AmpMin \div 2, 2 * AmpMin, FullScale}
Devices == {"wire", "mute", "pad", "limiter", "compressor", "expander"}

Sign(x) == IF x < 0 THEN -1 ELSE 1

\* The response of the device under test to the sample x.
DeviceResponse(device, x) ==
    LET knee == (3 * AmpMin) \div 2
    IN  CASE device = "wire" -> x
          [] device = "mute" -> 0
          [] device = "pad" -> Sign(x) * (Abs(x) \div 2)
          [] device = "limiter" -> Sign(x) * Min(Abs(x), knee)
          [] device = "compressor" ->
                IF Abs(x) <= knee THEN x
                ELSE Sign(x) * (knee + (Abs(x) - knee) \div 4)
          [] device = "expander" ->
                IF Abs(x) <= knee THEN x ELSE Sign(x) * ((3 * Abs(x)) \div 2)

\* The lengths a capture of a stimulus of n samples may have: complete, one
\* sample longer, short by a few samples, short by a whole level, or empty.
CaptureLens(n, fs) ==
    {n + 1, 0, n - (IntOf(25, fs) + IntOf(5, fs))} \cup {n - b : b \in 0..MaxCutBack}

CompInit ==
    /\ \E fs \in SampleRates, amp_max \in AmpMaxes, device \in Devices :
        \E len \in CaptureLens(NumLevels * (IntOf(25, fs) + IntOf(5, fs)), fs) :
            comp_args = [fs |-> fs, freq |-> fs \div 4, amp_max |-> amp_max,
                         device |-> device, capture_len |-> len]
    /\ comp_tone = NotRun
    /\ comp_rx = NotRun
    /\ comp_out = NotRun
    /\ live_tone = NotRun
    /\ live_out = NotRun

CompIdle ==
    /\ comp_args = << >>
    /\ comp_tone = NotRun
    /\ comp_rx = NotRun
    /\ comp_out = NotRun
    /\ live_tone = NotRun
    /\ live_out = NotRun

\* tools/run_offline_bench.py line 204: the stimulus is built.
BuildTone ==
    /\ comp_args # << >>
    /\ comp_tone = NotRun
    /\ comp_tone' = build_stepped_tone(comp_args.fs, comp_args.amp_max)
    /\ UNCHANGED <<comp_args, comp_rx, comp_out, live_tone, live_out>>

\* The stimulus is played through the device under test and captured.
Capture ==
    /\ comp_tone.called
    /\ comp_rx = NotRun
    /\ comp_rx' = [called |-> TRUE,
                   signal |-> [k \in 1..comp_args.capture_len |->
                                  IF k <= Len(comp_tone.signal)
                                  THEN DeviceResponse(comp_args.device, comp_tone.signal[k])
                                  ELSE 0]]
    /\ UNCHANGED <<comp_args, comp_tone, comp_out, live_tone, live_out>>

\* tools/run_offline_bench.py line 219: the capture is analysed.
CurveCall ==
    /\ comp_rx.called
    /\ comp_out = NotRun
    /\ comp_out' = compression_curve(comp_rx.signal, comp_tone.meta)
    /\ UNCHANGED <<comp_args, comp_tone, comp_rx, live_tone, live_out>>

(***************************************************************************)
(* analysis/live_measurements.py: generate_compressor_tone and             *)
(* analyze_compressor_capture, the copies the live compressor task uses.   *)
(***************************************************************************)
\* generate_compressor_tone(freq, fs, amp_max) with freq = fs/4.
generate_compressor_tone(fs, amp_max) ==
    LET amps == [i \in 1..NumLevels |->
                    AmpMin + ((i - 1) * (amp_max - AmpMin)) \div (NumLevels - 1)]
        protect == amp_max
        seg == IntOf(25, fs)
        gap == IntOf(5, fs)
        tx == [k \in 1..(NumLevels * (seg + gap)) |->
                  LET i == (k - 1) \div (seg + gap)
                      j == (k - 1) % (seg + gap)
                  IN  IF j < seg THEN Min(amps[i + 1], protect) * QuarterSin(j) ELSE 0]
    IN  [called |-> TRUE,
         signal |-> tx,
         meta |-> [seg_samples |-> seg,
                   gap_samples |-> gap,
                   amps |-> amps,
                   trim_lead |-> IntOf(3, fs),
                   trim_tail |-> IntOf(1, fs)]]

\* Lines 104-108: the trimmed measurement window of level idx (0-based).
live_segment(sig, meta, idx) ==
    LET s0 == idx * (meta.seg_samples + meta.gap_samples)
        s1 == s0 + meta.seg_samples
        seg == PySlice(sig, s0, s1)
    IN  PySlice(seg, meta.trim_lead, Max(meta.trim_lead, Len(seg) - meta.trim_tail))

\* Mutant of enough_points: one point below -0.5 dB is enough for a fit.
enough_points_one(count) == count >= 1
\* Line 126: at least 2 points below -0.5 dB.
enough_points(count) == count >= 2

\* analyze_compressor_capture(sig, meta, fs).  bool() and float() at the
\* return turn a numpy scalar into the Python scalar of the same value.
analyze_compressor_capture(sig, meta) ==
    LET amps == meta.amps
        N == Len(amps)
        rms_in_db == [i \in 1..N |-> rin_db(amps[i])]
        rms_out_db == [i \in 1..N |-> rout_db(live_segment(sig, meta, i - 1))]
        anyNaN == \E i \in 1..N : rms_out_db[i].nan
        diff == [i \in 1..N |->
                    IF rms_out_db[i].nan THEN FloatNaN
                    ELSE Float(rms_out_db[i].v - rms_in_db[i])]
        fit_all == polyfit1(rms_in_db, [i \in 1..N |-> rms_out_db[i].v])
        gain_offset_db ==
            IF anyNaN THEN [nan |-> TRUE, num |-> 0, den |-> 1]
            ELSE [nan |-> FALSE, num |-> SumFn([i \in 1..N |-> diff[i].v], 1, N), den |-> N]
        \* line 120: the global test
        first_test ==
            /\ ~anyNaN
            /\ Abs(fit_all.p - fit_all.q) <= (fit_all.q - 1) \div 20
            /\ NpMax([i \in 1..N |-> diff[i].v]) + NpMax([i \in 1..N |-> -diff[i].v]) < 10
        mask == {i \in 1..N : ~diff[i].nan /\ diff[i].v < -5}
        fit == polyfit1(Masked(rms_in_db, mask, 1),
                        Masked([i \in 1..N |-> rms_out_db[i].v], mask, 1))
        \* lines 123-132
        fitted == ~first_test /\ enough_points(Cardinality(mask))
        ratio == IF ~fitted THEN RatioOne
                 ELSE IF fit.p <= 0 THEN [e12 |-> TRUE, num |-> 1, den |-> 1]
                 ELSE [e12 |-> FALSE, num |-> fit.q, den |-> fit.p]
        thr == IF fitted /\ Abs(fit.q - fit.p) > fit.q \div 1000000
               THEN [nan |-> FALSE, a |-> <<fit.p, fit.q>>,
                     mean_x |-> <<fit.sum_x, fit.n>>, mean_y |-> <<fit.sum_y, fit.n>>]
               ELSE ThrNaN
    IN  [called |-> TRUE,
         in_db |-> rms_in_db,
         out_db |-> rms_out_db,
         diff_db |-> diff,
         gain_offset_db |-> gain_offset_db,
         no_compression |-> ~fitted,
         thr_db |-> thr,
         ratio |-> ratio]

\* GUI_D_3_2_1.py line 512: the live task builds its stimulus.
GenerateTone ==
    /\ comp_args # << >>
    /\ live_tone = NotRun
    /\ live_tone' = generate_compressor_tone(comp_args.fs, comp_args.amp_max)
    /\ UNCHANGED <<comp_args, comp_tone, comp_rx, comp_out, live_out>>

\* GUI_D_3_2_1.py line 522: the live task analyses the captured buffer.
AnalyzeCapture ==
    /\ comp_rx.called
    /\ live_tone.called
    /\ live_out = NotRun
    /\ live_out' = analyze_compressor_capture(comp_rx.signal, live_tone.meta)
    /\ UNCHANGED <<comp_args, comp_tone, comp_rx, comp_out, live_tone>>

(***************************************************************************)
(* analysis/attack_release.py: envelope_rms and attack_release_times.      *)
(*                                                                         *)
(* Samples are integers in units of 1e-13.  An envelope value is kept in   *)
(* hundredths of that unit, so the 1e-12 of the peak test is 1000.  A      *)
(* buffer that holds a NaN or an infinite sample carries the flag `bad`:   *)
(* the cumulative sum spreads it to the last envelope point at least, so   *)
(* the maximum of the envelope is not finite.                              *)
(***************************************************************************)
PeakEps == 1000

\* The largest r in lo..hi with r * r <= x.
RECURSIVE SqrtBetween(_, _, _)
SqrtBetween(x, lo, hi) ==
    IF lo = hi THEN lo
    ELSE LET mid == (lo + hi + 1) \div 2
         IN  IF mid * mid <= x THEN SqrtBetween(x, mid, hi)
             ELSE SqrtBetween(x, lo, mid - 1)

\* np.sqrt, rounded down to the unit.
ISqrt(x) == SqrtBetween(x, 0, 46340)

\* Line 19: win = int(max(1, fs * win_ms / 1000)).
env_win(fs, win_ms) == Max(1, (fs * win_ms) \div 1000)

\* Mutant of env_cumsum: the zeros are padded in front only.
env_cumsum_front_pad(sig, win) ==
    LET n == Len(sig)
        padded == [j \in 1..(n + 2 * win) |->
                      IF j > 2 * win THEN sig[j - 2 * win] * sig[j - 2 * win] ELSE 0]
    IN  [j \in 1..(n + 2 * win) |-> SumFn(padded, 1, j)]

\* Lines 22-23: np.cumsum(np.pad(sig ** 2, (win, win))).
env_cumsum(sig, win) ==
    LET n == Len(sig)
        padded == [j \in 1..(n + 2 * win) |->
                      IF j > win /\ j <= n + win THEN sig[j - win] * sig[j - win] ELSE 0]
    IN  [j \in 1..(n + 2 * win) |-> SumFn(padded, 1, j)]

\* Line 24: cumsum[2 * win:] - cumsum[:-2 * win], one value per sample.
env_window_sums(sig, win) ==
    LET cumsum == env_cumsum(sig, win)
        upper == PySliceFrom(cumsum, 2 * win)
        lower == PySliceTo(cumsum, -2 * win)
    IN  [i \in 1..Min(Len(upper), Len(lower)) |-> upper[i] - lower[i]]

\* envelope_rms(sig, fs, win_ms).
envelope_rms(sig, fs, win_ms) ==
    LET win == env_win(fs, win_ms)
        sums == env_window_sums(sig, win)
    IN  [i \in 1..Len(sums) |-> ISqrt((sums[i] * 10000) \div Max(2 * win, 1))]

\* The k-th smallest element of x (k from 1).
KthSmallest(x, k) ==
    LET vals == {x[i] : i \in 1..Len(x)}
    IN  CHOOSE v \in vals :
            /\ Cardinality({i \in 1..Len(x) : x[i] < v}) < k
            /\ Cardinality({i \in 1..Len(x) : x[i] <= v}) >= k

\* np.median(x), doubled: the middle element, or the mean of the two middle ones.
Median2(x) ==
    LET n == Len(x)
    IN  IF n % 2 = 1 THEN 2 * KthSmallest(x, (n + 1) \div 2)
        ELSE KthSmallest(x, n \div 2) + KthSmallest(x, n \div 2 + 1)

\* Mutant of crossing: a sample equal to the level does not cross it.
crossing_strict(x, level20, direction) ==
    LET idxs == {i \in 1..Len(x) :
                    IF direction = "up" THEN 20 * x[i] > level20 ELSE 20 * x[i] < level20}
    IN  IF idxs = {} THEN None
        ELSE Some((CHOOSE i \in idxs : \A j \in idxs : i <= j) - 1)

\* Lines 63-68: _crossing(x, level, direction), with the level given as
\* level20 = 20 * level; None or the 0-based index of the first crossing.
crossing(x, level20, direction) ==
    LET idxs == {i \in 1..Len(x) :
                    IF direction = "up" THEN 20 * x[i] >= level20 ELSE 20 * x[i] <= level20}
    IN  IF idxs = {} THEN None
        ELSE Some((CHOOSE i \in idxs : \A j \in idxs : i <= j) - 1)

TimeNaN == [nan |-> TRUE, num |-> 0, den |-> 1]
\* (samples) / fs * 1000.0
TimeMs(samples, fs) == [nan |-> FALSE, num |-> samples * 1000, den |-> fs]

\* Mutant of peak_too_small: the peak test is left out.
peak_never_too_small(peak) == FALSE
\* Line 52: peak < 1e-12.
peak_too_small(peak) == peak < PeakEps

\* attack_release_times(sig, fs, win_ms).
attack_release_times(a) ==
    LET env == envelope_rms(a.sig, a.fs, a.win_ms)
        n == Len(env)
        degenerate == [called |-> TRUE, env |-> env,
                       attack_ms |-> TimeNaN, release_ms |-> TimeNaN]
    IN  IF n < 10 \/ a.bad THEN degenerate
        ELSE
        LET q1 == n \div 4
            q3 == (3 * n) \div 4
            low2 == Median2(PySlice(env, 0, q1))
            high2 == Median2(PySlice(env, q1, q3))
            tail2 == Median2(PySlice(env, q3, n))
            peak == NpMax(env)
        IN  IF peak_too_small(peak) THEN degenerate
            ELSE
            LET search_rise == PySlice(env, q1 - n \div 10, q3)
                search_fall == PySlice(env, q3 - n \div 10, n)
                atk_start_rel == crossing(search_rise, 9 * low2 + high2, "up")
                atk_end_rel == crossing(search_rise, low2 + 9 * high2, "up")
                rel_start_rel == crossing(search_fall, 9 * high2 + tail2, "down")
                rel_end_rel == crossing(search_fall, high2 + 9 * tail2, "down")
            IN  [called |-> TRUE,
                 env |-> env,
                 attack_ms |->
                    IF atk_start_rel # None /\ atk_end_rel # None
                    THEN TimeMs(Val(atk_end_rel) - Val(atk_start_rel), a.fs)
                    ELSE TimeNaN,
                 release_ms |->
                    IF rel_start_rel # None /\ rel_end_rel # None
                    THEN TimeMs(Val(rel_end_rel) - Val(rel_start_rel), a.fs)
                    ELSE TimeNaN]

\* Signals: silent or faint (2e-13), or stepping between two plain levels.
EnvAlphabets == {{0, 2}, {0, 40}, {20, 40}}

ArInit ==
    /\ \E n \in 0..MaxEnvLen, alphabet \in EnvAlphabets, bad \in BOOLEAN,
          rate \in {<<1000, 1>>, <<2000, 1>>} :
        \E sig \in [1..n -> alphabet] :
            /\ bad => n > 0
            /\ ar_args = [sig |-> sig, bad |-> bad, fs |-> rate[1], win_ms |-> rate[2]]
    /\ ar_out = NotRun

ArIdle ==
    /\ ar_args = << >>
    /\ ar_out = NotRun

\* One call of attack_release_times.
ArCall ==
    /\ ar_args # << >>
    /\ ar_out = NotRun
    /\ ar_out' = attack_release_times(ar_args)
    /\ UNCHANGED ar_args

(***************************************************************************)
(* residual_metrics (analysis/compare.py, lines 102-157).                  *)
(*                                                                         *)
(* Samples are integers in units of 1e-3 of full scale, so the clipping    *)
(* level 0.999 is 999.  A mean square plus 1e-12 is carried by the sum of  *)
(* squares and the count it is taken over.  The metrics that need an FFT   *)
(* (THD, frequency response, hum) are not computed; the FFT of an empty    *)
(* core raises ValueError.                                                 *)
(***************************************************************************)
ClipLevel == 999

\* np.mean(x ** 2) + 1e-12 for a non-empty x.
MeanSqEps(x) == [sumsq |-> SumSq(x), n |-> Len(x)]

\* Lines 116-117: s_idx, e_idx of residual_metrics.
residual_region(n, region) ==
    LET s_idx == RegionIdx(n, region[1])
        e_idx == IF RegionIdx(n, region[2]) > s_idx THEN RegionIdx(n, region[2]) ELSE n
    IN  <<s_idx, e_idx>>

\* Mutant of residual_of: the buffers are added.
residual_of_sum(tgt_core, ref_core) ==
    [i \in 1..Len(ref_core) |-> tgt_core[i] + ref_core[i]]
\* Line 121: residual = tgt_core - ref_core.
residual_of(tgt_core, ref_core) ==
    [i \in 1..Len(ref_core) |-> tgt_core[i] - ref_core[i]]

\* residual_metrics(ref, tgt, fs, freq, hmax, stable_region).
residual_metrics(refB, tgtB, region) ==
    LET n == Min(Len(refB), Len(tgtB))
        ref_n == PySliceTo(refB, n)
        tgt_n == PySliceTo(tgtB, n)
        rg == residual_region(n, region)
        ref_core == PySlice(ref_n, rg[1], rg[2])
        tgt_core == PySlice(tgt_n, rg[1], rg[2])
        residual == residual_of(tgt_core, ref_core)
        res_ms == MeanSqEps(residual)
        ref_ms == MeanSqEps(ref_core)
    IN  IF Len(ref_core) = 0
        THEN [called |-> TRUE, raised |-> TRUE, s_idx |-> rg[1], e_idx |-> rg[2]]
        ELSE [called |-> TRUE, raised |-> FALSE,
              s_idx |-> rg[1], e_idx |-> rg[2],
              \* 20*log10(res_rms + 1e-12), carried by res_rms^2
              residual_rms_dbfs |-> res_ms,
              noise_floor_dbfs |-> res_ms,
              \* 20*log10(ref_rms / res_rms + 1e-12), carried by both squares
              snr_db |-> [ref_ms |-> ref_ms, res_ms |-> res_ms],
              clipping_samples |->
                  Cardinality({i \in 1..Len(tgt_core) : Abs(tgt_core[i]) >= ClipLevel})]

ResSamples == {0, 998, 999, -1000}
Distortions == {"same", "offset", "muted", "shorter", "limited"}

\* The target compared with the reference x.
Distort(x, kind) ==
    CASE kind = "same" -> x
      [] kind = "offset" -> [i \in 1..Len(x) |-> x[i] + 1]
      [] kind = "muted" -> [i \in 1..Len(x) |-> 0]
      [] kind = "shorter" -> PySliceTo(x, Max(Len(x) - 1, 0))
      [] kind = "limited" -> [i \in 1..Len(x) |-> Sign(x[i]) * Min(Abs(x[i]), ClipLevel - 1)]

ResInit ==
    /\ \E n \in 0..MaxResLen, kind \in Distortions, region \in Regions :
        \E x \in [1..n -> ResSamples] :
            res_args = [ref |-> x, tgt |-> Distort(x, kind), kind |-> kind,
                        stable_region |-> region]
    /\ res_out = NotRun

ResIdle ==
    /\ res_args = << >>
    /\ res_out = NotRun

\* One call of residual_metrics.
ResCall ==
    /\ res_args # << >>
    /\ res_out = NotRun
    /\ res_out' = residual_metrics(res_args.ref, res_args.tgt, res_args.stable_region)
    /\ UNCHANGED res_args

(***************************************************************************)
(* run_compare_cases (tools/run_offline_bench.py, lines 229-257) and       *)
(* _analyze_pair (GUI_D_3_2_1.py, lines 622-641).                          *)
(*                                                                         *)
(* read_wav (audio/wav_io.py, lines 13-32) returns (fs, data), or          *)
(* (None, None) when the file cannot be read; an entry records what it     *)
(* returns for each path.  Whether the analysis of a readable, matching    *)
(* pair raises is part of the entry, since it depends on the file data.    *)
(***************************************************************************)
FileRates == {44100, 48000}
ReadResults == {None} \cup {Some(r) : r \in FileRates}

SkipMissing == "Skipped: missing input/output wav."
SkipMismatch == "Skipped: fs mismatch or read error."

\* Line 241 / lines 628-633: the pair is not analysed.
fs_unusable(fs_in, fs_out) == fs_in = None \/ fs_out = None \/ fs_in # fs_out

CompareEntries ==
    {[files_exist |-> FALSE, fs_in |-> None, fs_out |-> None, analysis_raises |-> FALSE]}
    \cup {[files_exist |-> TRUE, fs_in |-> a, fs_out |-> b, analysis_raises |-> r] :
            a \in ReadResults, b \in ReadResults, r \in BOOLEAN}

\* Mutant of pipeline_calls: a skipped entry is still aligned.
pipeline_calls_eager(i, usable) ==
    IF usable THEN <<<<"align_signals", i>>, <<"gain_match", i>>, <<"residual_metrics", i>>>>
    ELSE <<<<"align_signals", i>>>>
\* Lines 245-247 / 637-640: the analysis calls made for entry i.
pipeline_calls(i, usable) ==
    IF usable THEN <<<<"align_signals", i>>, <<"gain_match", i>>, <<"residual_metrics", i>>>>
    ELSE << >>

CmpInit ==
    /\ \E n \in 0..MaxEntries : cmp_entries \in [1..n -> CompareEntries]
    /\ cmp_pos = 0
    /\ cmp_results = << >>
    /\ cmp_calls = << >>
    /\ cmp_raised = FALSE
    /\ \E a \in ReadResults, b \in ReadResults, r \in BOOLEAN :
        pair_args = [fs_in |-> a, fs_out |-> b, analysis_raises |-> r]
    /\ pair_out = NotRun

CmpIdle ==
    /\ cmp_entries = << >>
    /\ cmp_pos = 0
    /\ cmp_results = << >>
    /\ cmp_calls = << >>
    /\ cmp_raised = FALSE
    /\ pair_args = << >>
    /\ pair_out = NotRun

\* One iteration of the loop of run_compare_cases.
CompareEntry ==
    /\ ~cmp_raised
    /\ cmp_pos < Len(cmp_entries)
    /\ LET i == cmp_pos + 1
           entry == cmp_entries[i]
       IN  IF ~entry.files_exist
           THEN /\ cmp_results' = Append(cmp_results,
                      [entry |-> i, notes |-> <<SkipMissing>>, has_metrics |-> FALSE])
                /\ cmp_calls' = cmp_calls \o pipeline_calls(i, FALSE)
                /\ cmp_pos' = i
                /\ UNCHANGED cmp_raised
           ELSE IF fs_unusable(entry.fs_in, entry.fs_out)
           THEN /\ cmp_results' = Append(cmp_results,
                      [entry |-> i, notes |-> <<SkipMismatch>>, has_metrics |-> FALSE])
                /\ cmp_calls' = cmp_calls \o pipeline_calls(i, FALSE)
                /\ cmp_pos' = i
                /\ UNCHANGED cmp_raised
           ELSE IF entry.analysis_raises
           THEN /\ cmp_calls' = cmp_calls \o pipeline_calls(i, TRUE)
                /\ cmp_raised' = TRUE
                /\ UNCHANGED <<cmp_results, cmp_pos>>
           ELSE /\ cmp_results' = Append(cmp_results,
                      [entry |-> i, notes |-> << >>, has_metrics |-> TRUE])
                /\ cmp_calls' = cmp_calls \o pipeline_calls(i, TRUE)
                /\ cmp_pos' = i
                /\ UNCHANGED cmp_raised
    /\ UNCHANGED <<cmp_entries, pair_args, pair_out>>

\* One call of _analyze_pair.
AnalyzePair ==
    /\ pair_args # << >>
    /\ pair_out = NotRun
    /\ pair_out' =
        IF pair_args.fs_in = None \/ pair_args.fs_out = None
        THEN [called |-> TRUE, raised |-> FALSE, calls |-> pipeline_calls(0, FALSE),
              log |-> <<"read failed">>]
        ELSE IF pair_args.fs_in # pair_args.fs_out
        THEN [called |-> TRUE, raised |-> FALSE, calls |-> pipeline_calls(0, FALSE),
              log |-> <<"fs mismatch">>]
        ELSE [called |-> TRUE, raised |-> pair_args.analysis_raises,
              calls |-> pipeline_calls(0, TRUE),
              log |-> IF pair_args.analysis_raises THEN << >> ELSE <<"metrics">>]
    /\ UNCHANGED <<cmp_entries, cmp_pos, cmp_results, cmp_calls, cmp_raised, pair_args>>

(***************************************************************************)
(* The background worker: _start_thread and request_stop                   *)
(* (GUI_D_3_2_1.py, lines 114-131), run_in_thread (utils/threading.py,     *)
(* lines 5-11), and the task run_hw_compressor (GUI_D_3_2_1.py, lines      *)
(* 505-537) with play_and_record (audio/playrec.py, lines 12-45).          *)
(*                                                                         *)
(* _start_thread and request_stop are button callbacks and run on the GUI  *)
(* thread, one at a time; the worker thread advances between them.  A      *)
(* thread is alive from thread.start() until its target has returned.      *)
(***************************************************************************)
NewThread ==
    [pc |-> "require_sd", pre_check |-> "unseen", post_check |-> "unseen",
     analysed |-> FALSE, persisted |-> FALSE, plotted |-> FALSE, caught |-> FALSE]

\* Mutant of is_alive: no thread is ever reported alive.
is_alive_never(t) == FALSE
\* threading.Thread.is_alive() of thread t.
is_alive(t) == threads[t].pc # "done"

\* Line 115: self.worker and self.worker.is_alive().
worker_busy == worker # None /\ is_alive(Val(worker))

TaskInit ==
    /\ sd_available \in BOOLEAN
    /\ stop_event \in BOOLEAN
    /\ worker = None
    /\ threads = << >>
    /\ start_log = << >>

\* The application has not been constructed.
NoApp == <<0, 0>>

TaskIdle ==
    /\ sd_available = FALSE
    /\ stop_event = FALSE
    /\ worker = NoApp
    /\ threads = << >>
    /\ start_log = << >>

\* Mutant of cleared: run_in_thread leaves the stop flag as it was.
cleared_not(flag) == flag
\* utils/threading.py line 9: stop_event.clear(), before thread.start().
cleared(flag) == FALSE

\* _start_thread(target): refuses while the worker is alive, otherwise
\* run_in_thread clears the stop flag and starts the new thread.
StartThread ==
    /\ Len(start_log) < MaxRequests
    /\ worker # NoApp
    /\ IF worker_busy
       THEN /\ start_log' = Append(start_log,
                  [busy |-> TRUE, alive_before |-> {t \in 1..Len(threads) : threads[t].pc # "done"},
                   started |-> 0, stop_before |-> stop_event, stop_after |-> stop_event])
            /\ UNCHANGED <<stop_event, worker, threads>>
       ELSE /\ threads' = Append(threads, NewThread)
            /\ stop_event' = cleared(stop_event)
            /\ worker' = Some(Len(threads) + 1)
            /\ start_log' = Append(start_log,
                  [busy |-> FALSE, alive_before |-> {t \in 1..Len(threads) : threads[t].pc # "done"},
                   started |-> 1, stop_before |-> stop_event,
                   stop_after |-> cleared(stop_event)])
    /\ UNCHANGED sd_available

\* request_stop().
RequestStop ==
    /\ worker # NoApp
    /\ ~stop_event
    /\ stop_event' = TRUE
    /\ UNCHANGED <<sd_available, worker, threads, start_log>>

Advance(t, fields) == threads' = [threads EXCEPT ![t] = fields]

\* run_hw_compressor, lines 506-514: up to the call of play_and_record.
RequireSd ==
    \E t \in 1..Len(threads) :
        /\ threads[t].pc = "require_sd"
        /\ Advance(t, [threads[t] EXCEPT !.pc = IF sd_available THEN "pre_check" ELSE "done"])
        /\ UNCHANGED <<sd_available, stop_event, worker, start_log>>

\* The state of the stop flag, as recorded for a thread at each check.
FlagNow == IF stop_event THEN "set" ELSE "clear"

\* Mutant of stop_seen: the flag is never seen set.
stop_seen_never == FALSE
\* stop_event.is_set() as play_and_record reads it (lines 25 and 40).
stop_seen == stop_event

\* play_and_record, lines 21-32: the check before the capture.
PreCheck ==
    \E t \in 1..Len(threads) :
        /\ threads[t].pc = "pre_check"
        /\ Advance(t, [threads[t] EXCEPT !.pre_check = FlagNow,
                           !.pc = IF stop_seen THEN "done" ELSE "capture"])
        /\ UNCHANGED <<sd_available, stop_event, worker, start_log>>

\* play_and_record, lines 33-39: sd.playrec and sd.wait, which may fail.
Capture_hw ==
    \E t \in 1..Len(threads), ok \in BOOLEAN :
        /\ threads[t].pc = "capture"
        /\ Advance(t, [threads[t] EXCEPT !.pc = IF ok THEN "post_check" ELSE "done"])
        /\ UNCHANGED <<sd_available, stop_event, worker, start_log>>

\* play_and_record, lines 40-45, and run_hw_compressor, lines 518-520:
\* the check after the capture; an empty recording also ends the task.
PostCheck ==
    \E t \in 1..Len(threads), empty \in BOOLEAN :
        /\ threads[t].pc = "post_check"
        /\ Advance(t, [threads[t] EXCEPT !.post_check = FlagNow,
                           !.pc = IF stop_seen \/ empty THEN "done" ELSE "analysis"])
        /\ UNCHANGED <<sd_available, stop_event, worker, start_log>>

\* run_hw_compressor, lines 521-526: the analysis of the capture; an
\* exception is caught and logged by wrapped() (lines 119-126).
Analyse ==
    \E t \in 1..Len(threads), raises \in BOOLEAN :
        /\ threads[t].pc = "analysis"
        /\ Advance(t, IF raises
                      THEN [threads[t] EXCEPT !.caught = TRUE, !.pc = "done"]
                      ELSE [threads[t] EXCEPT !.analysed = TRUE, !.pc = "persist"])
        /\ UNCHANGED <<sd_available, stop_event, worker, start_log>>

\* run_hw_compressor, lines 527-535: the CSV row and the TX/RX artifacts.
Persist ==
    \E t \in 1..Len(threads) :
        /\ threads[t].pc = "persist"
        /\ Advance(t, [threads[t] EXCEPT !.persisted = TRUE, !.pc = "plot"])
        /\ UNCHANGED <<sd_available, stop_event, worker, start_log>>

\* run_hw_compressor, line 536: _schedule_plot.
SchedulePlot ==
    \E t \in 1..Len(threads) :
        /\ threads[t].pc = "plot"
        /\ Advance(t, [threads[t] EXCEPT !.plotted = TRUE, !.pc = "done"])
        /\ UNCHANGED <<sd_available, stop_event, worker, start_log>>

WorkerStep ==
    RequireSd \/ PreCheck \/ Capture_hw \/ PostCheck \/ Analyse \/ Persist \/ SchedulePlot

(***************************************************************************)
(* Storage of the arrays the analysis functions take and return            *)
(* (analysis/compare.py, lines 19-79; analysis/thd.py, lines 54-74).       *)
(*                                                                         *)
(* A numpy array is a window [start, stop) on a block of storage; a basic  *)
(* slice a[i:j] is a new window on the same block, while arithmetic        *)
(* (target * gain, sig - mean, mag ** 2) allocates a new block.            *)
(***************************************************************************)
WholeBlock(b, n) == [base |-> b, start |-> 0, stop |-> n]
SizeOf(a) == a.stop - a.start
Contents(heap, a) == SubSeq(heap[a.base], a.start + 1, a.stop)

\* a[start:stop] on a numpy array: a view, never a copy.
NpSlice(a, start, stop) ==
    LET lo == SliceIdx(start, SizeOf(a))
        hi == SliceIdx(stop, SizeOf(a))
    IN  [base |-> a.base, start |-> a.start + lo, stop |-> a.start + Max(lo, hi)]

\* align_signals, lines 49-57, on arrays: the slices it returns for the lag
\* it has chosen (`out` is what align_signals computes from the samples).
align_signals_arrays(heap, refA, tgtA, out) ==
    IF out.raised
    THEN [called |-> TRUE, raised |-> TRUE, heap |-> heap, arrays |-> << >>]
    ELSE LET lag == out.lag
             aligned_ref == IF lag >= 0
                            THEN NpSlice(refA, 0, SizeOf(refA) - lag)
                            ELSE NpSlice(refA, -lag, -lag + SizeOf(tgtA))
             aligned_tgt == IF lag >= 0
                            THEN NpSlice(tgtA, lag, lag + SizeOf(aligned_ref))
                            ELSE NpSlice(tgtA, 0, SizeOf(aligned_ref))
             min_len == Min(SizeOf(aligned_ref), SizeOf(aligned_tgt))
         IN  [called |-> TRUE, raised |-> FALSE, heap |-> heap,
              arrays |-> <<NpSlice(aligned_ref, 0, min_len),
                           NpSlice(aligned_tgt, 0, min_len)>>]

\* gain_match, line 79: target * gain is a new array (its samples are
\* carried unscaled, as in gain_match above).
gain_match_arrays(heap, refA, tgtA) ==
    [called |-> TRUE, raised |-> FALSE,
     heap |-> Append(heap, Contents(heap, tgtA)),
     arrays |-> <<WholeBlock(Len(heap) + 1, SizeOf(tgtA))>>]

\* compute_thd, lines 54-74 and 118: sig - mean, mag ** 2 and the returned
\* spectrum are new arrays of nfft/2 + 1 bins; power[0] = 0.0 writes to the
\* function's own array.  An empty signal raises.
compute_thd_arrays(heap, sigA) ==
    IF SizeOf(sigA) = 0
    THEN [called |-> TRUE, raised |-> TRUE, heap |-> heap, arrays |-> << >>]
    ELSE LET nbins == SizeOf(sigA) \div 2 + 1
             power == ZeroDC([i \in 1..nbins |-> 1])
         IN  [called |-> TRUE, raised |-> FALSE,
              heap |-> Append(heap, power),
              arrays |-> <<WholeBlock(Len(heap) + 1, nbins)>>]

MemFunctions == {"align_signals", "gain_match", "compute_thd"}

MemInit ==
    /\ \E x \in Buffers(MaxMemLen), y \in Buffers(MaxMemLen) :
        /\ mem_heap = <<x, y>>
        /\ mem_args = [ref |-> WholeBlock(1, Len(x)), target |-> WholeBlock(2, Len(y)),
                       ref_samples |-> x, target_samples |-> y]
    /\ mem_ret = NotRun

MemIdle ==
    /\ mem_heap = << >>
    /\ mem_args = << >>
    /\ mem_ret = NotRun

\* One call of an analysis function on the two arrays.
MemCall ==
    /\ mem_args # << >>
    /\ mem_ret = NotRun
    /\ \E fn \in MemFunctions, prefer \in BOOLEAN :
        \E out \in {align_signals(Contents(mem_heap, mem_args.ref),
                                  Contents(mem_heap, mem_args.target), None, prefer)} :
        \E r \in {CASE fn = "align_signals" ->
                        align_signals_arrays(mem_heap, mem_args.ref, mem_args.target, out)
                    [] fn = "gain_match" ->
                        gain_match_arrays(mem_heap, mem_args.ref, mem_args.target)
                    [] fn = "compute_thd" ->
                        compute_thd_arrays(mem_heap, mem_args.target)} :
            /\ mem_heap' = r.heap
            /\ mem_ret' = [called |-> TRUE, raised |-> r.raised, fn |-> fn,
                           arrays |-> r.arrays, written |-> FALSE]
    /\ UNCHANGED mem_args

\* The caller stores a sample into an array it was returned.
WrittenSample == 7

MemWrite ==
    /\ mem_ret.called
    /\ ~mem_ret.written
    /\ \E k \in 1..Len(mem_ret.arrays) :
        \E i \in 1..SizeOf(mem_ret.arrays[k]) :
            LET a == mem_ret.arrays[k]
            IN  mem_heap' = [mem_heap EXCEPT ![a.base][a.start + i] = WrittenSample]
    /\ mem_ret' = [mem_ret EXCEPT !.written = TRUE]
    /\ UNCHANGED mem_args

(***************************************************************************)
(* utils/plot_windows.py: PlotWindowManager.  A window (top, fig) is the   *)
(* number of its Toplevel, in order of creation.  The manager's methods    *)
(* run on the Tk thread, one at a time.                                    *)
(***************************************************************************)
\* Lines 24-31: _close_window(top, fig) destroys top and drops it from the list.
close_window(m, top) ==
    [windows |-> SelectSeq(m.windows, LAMBDA t : t # top),
     destroyed |-> m.destroyed \cup {top}]

\* Lines 33-35: _register(top, fig).
register(m, top) == [m EXCEPT !.windows = Append(m.windows, top)]

\* Mutant of trim_needed: the list is trimmed only once it is over the limit.
trim_needed_late(n, limit) == n > limit
\* Line 39: len(self.windows) >= self.max_windows.
trim_needed(n, limit) == n >= limit

\* Lines 38-42: _maybe_trim_windows pops the first window and closes it.
maybe_trim_windows(m, limit) ==
    IF trim_needed(Len(m.windows), limit)
    THEN close_window([m EXCEPT !.windows = Tail(m.windows)], Head(m.windows))
    ELSE m

\* Lines 44-59: _create_window trims, creates the Toplevel top, registers it.
create_window(m, limit, top) == register(maybe_trim_windows(m, limit), top)

PlotInit ==
    /\ max_windows \in 1..MaxWindows
    /\ windows = << >>
    /\ destroyed = {}
    /\ created = 0
    /\ last_op = [kind |-> "none", before |-> << >>, closed |-> {}]

PlotIdle ==
    /\ max_windows = 0
    /\ windows = << >>
    /\ destroyed = {}
    /\ created = 0
    /\ last_op = [kind |-> "none", before |-> << >>, closed |-> {}]

\* open_thd_snapshot, open_compressor_snapshot or open_ar_snapshot opens a
\* window through _create_window.
OpenSnapshot ==
    /\ max_windows > 0
    /\ created < MaxOpenings
    /\ \E m \in {create_window([windows |-> windows, destroyed |-> destroyed],
                               max_windows, created + 1)} :
        /\ windows' = m.windows
        /\ destroyed' = m.destroyed
        /\ last_op' = [kind |-> "open", before |-> windows,
                       closed |-> m.destroyed \ destroyed]
    /\ created' = created + 1
    /\ UNCHANGED max_windows

\* The user closes a tracked window: its WM_DELETE_WINDOW handler (line 35)
\* calls _close_window.
UserClose ==
    /\ max_windows > 0
    /\ \E i \in 1..Len(windows) :
        \E m \in {close_window([windows |-> windows, destroyed |-> destroyed], windows[i])} :
            /\ windows' = m.windows
            /\ destroyed' = m.destroyed
            /\ last_op' = [kind |-> "close", before |-> windows,
                           closed |-> m.destroyed \ destroyed]
    /\ UNCHANGED <<max_windows, created>>

(***************************************************************************)
(* Specifications.                                                         *)
(***************************************************************************)
AlignOthers ==
    <<gainVars, normVars, thdVars, compVars, arVars, resVars, cmpVars, taskVars, memVars
    , plotVars>>
GainOthers ==
    <<alignVars, normVars, thdVars, compVars, arVars, resVars, cmpVars, taskVars, memVars
    , plotVars>>
NormOthers ==
    <<alignVars, gainVars, thdVars, compVars, arVars, resVars, cmpVars, taskVars, memVars
    , plotVars>>
ThdOthers ==
    <<alignVars, gainVars, normVars, compVars, arVars, resVars, cmpVars, taskVars, memVars
    , plotVars>>
CompOthers ==
    <<alignVars, gainVars, normVars, thdVars, arVars, resVars, cmpVars, taskVars, memVars
    , plotVars>>
ArOthers ==
    <<alignVars, gainVars, normVars, thdVars, compVars, resVars, cmpVars, taskVars, memVars
    , plotVars>>
ResOthers ==
    <<alignVars, gainVars, normVars, thdVars, compVars, arVars, cmpVars, taskVars, memVars
    , plotVars>>
CmpOthers ==
    <<alignVars, gainVars, normVars, thdVars, compVars, arVars, resVars, taskVars, memVars
    , plotVars>>
TaskOthers ==
    <<alignVars, gainVars, normVars, thdVars, compVars, arVars, resVars, cmpVars, memVars
    , plotVars>>
MemOthers ==
    <<alignVars, gainVars, normVars, thdVars, compVars, arVars, resVars, cmpVars, taskVars
    , plotVars>>
PlotOthers ==
    <<alignVars, gainVars, normVars, thdVars, compVars, arVars, resVars, cmpVars, taskVars
    , memVars>>

AlignNext == AlignCall /\ UNCHANGED AlignOthers
GainNext == GainCall /\ UNCHANGED GainOthers
NormNext == NormCall /\ UNCHANGED NormOthers
ThdNext == ThdCall /\ UNCHANGED ThdOthers
CompNext ==
    \/ BuildTone /\ UNCHANGED CompOthers
    \/ Capture /\ UNCHANGED CompOthers
    \/ CurveCall /\ UNCHANGED CompOthers
    \/ GenerateTone /\ UNCHANGED CompOthers
    \/ AnalyzeCapture /\ UNCHANGED CompOthers
ArNext == ArCall /\ UNCHANGED ArOthers
ResNext == ResCall /\ UNCHANGED ResOthers
CmpNext ==
    \/ CompareEntry /\ UNCHANGED CmpOthers
    \/ AnalyzePair /\ UNCHANGED CmpOthers
TaskNext ==
    \/ StartThread /\ UNCHANGED TaskOthers
    \/ RequestStop /\ UNCHANGED TaskOthers
    \/ RequireSd /\ UNCHANGED TaskOthers
    \/ PreCheck /\ UNCHANGED TaskOthers
    \/ Capture_hw /\ UNCHANGED TaskOthers
    \/ PostCheck /\ UNCHANGED TaskOthers
    \/ Analyse /\ UNCHANGED TaskOthers
    \/ Persist /\ UNCHANGED TaskOthers
    \/ SchedulePlot /\ UNCHANGED TaskOthers
MemNext ==
    \/ MemCall /\ UNCHANGED MemOthers
    \/ MemWrite /\ UNCHANGED MemOthers
PlotNext ==
    \/ OpenSnapshot /\ UNCHANGED PlotOthers
    \/ UserClose /\ UNCHANGED PlotOthers

InitAlign ==
    AlignInit /\ GainIdle /\ NormIdle /\ ThdIdle /\ CompIdle /\ ArIdle /\ ResIdle /\ CmpIdle
    /\ TaskIdle /\ MemIdle /\ PlotIdle
InitStep ==
    StepInit /\ GainIdle /\ NormIdle /\ ThdIdle /\ CompIdle /\ ArIdle /\ ResIdle /\ CmpIdle
    /\ TaskIdle /\ MemIdle /\ PlotIdle
InitGain ==
    AlignIdle /\ GainInit /\ NormIdle /\ ThdIdle /\ CompIdle /\ ArIdle /\ ResIdle /\ CmpIdle
    /\ TaskIdle /\ MemIdle /\ PlotIdle
InitNorm ==
    AlignIdle /\ GainIdle /\ NormInit /\ ThdIdle /\ CompIdle /\ ArIdle /\ ResIdle /\ CmpIdle
    /\ TaskIdle /\ MemIdle /\ PlotIdle
InitThd ==
    AlignIdle /\ GainIdle /\ NormIdle /\ ThdInit /\ CompIdle /\ ArIdle /\ ResIdle /\ CmpIdle
    /\ TaskIdle /\ MemIdle /\ PlotIdle
InitComp ==
    AlignIdle /\ GainIdle /\ NormIdle /\ ThdIdle /\ CompInit /\ ArIdle /\ ResIdle /\ CmpIdle
    /\ TaskIdle /\ MemIdle /\ PlotIdle
InitAr ==
    AlignIdle /\ GainIdle /\ NormIdle /\ ThdIdle /\ CompIdle /\ ArInit /\ ResIdle /\ CmpIdle
    /\ TaskIdle /\ MemIdle /\ PlotIdle
InitRes ==
    AlignIdle /\ GainIdle /\ NormIdle /\ ThdIdle /\ CompIdle /\ ArIdle /\ ResInit /\ CmpIdle
    /\ TaskIdle /\ MemIdle /\ PlotIdle
InitCmp ==
    AlignIdle /\ GainIdle /\ NormIdle /\ ThdIdle /\ CompIdle /\ ArIdle /\ ResIdle /\ CmpInit
    /\ TaskIdle /\ MemIdle /\ PlotIdle
InitTask ==
    AlignIdle /\ GainIdle /\ NormIdle /\ ThdIdle /\ CompIdle /\ ArIdle /\ ResIdle /\ CmpIdle
    /\ TaskInit /\ MemIdle /\ PlotIdle
InitMem ==
    AlignIdle /\ GainIdle /\ NormIdle /\ ThdIdle /\ CompIdle /\ ArIdle /\ ResIdle /\ CmpIdle
    /\ TaskIdle /\ MemInit /\ PlotIdle
InitPlot ==
    AlignIdle /\ GainIdle /\ NormIdle /\ ThdIdle /\ CompIdle /\ ArIdle /\ ResIdle /\ CmpIdle
    /\ TaskIdle /\ MemIdle /\ PlotInit

Init == InitAlign \/ InitGain \/ InitNorm \/ InitThd \/ InitComp \/ InitAr \/ InitRes \/ InitCmp
    \/ InitTask \/ InitMem \/ InitPlot
Next == AlignNext \/ GainNext \/ NormNext \/ ThdNext \/ CompNext \/ ArNext \/ ResNext \/ CmpNext
    \/ TaskNext \/ MemNext \/ PlotNext
Spec == Init /\ [][Next]_vars

SpecAlign == InitAlign /\ [][AlignNext]_vars
SpecStep == InitStep /\ [][AlignNext]_vars
SpecGain == InitGain /\ [][GainNext]_vars
SpecNorm == InitNorm /\ [][NormNext]_vars
SpecThd == InitThd /\ [][ThdNext]_vars
SpecComp == InitComp /\ [][CompNext]_vars
SpecAr == InitAr /\ [][ArNext]_vars
SpecRes == InitRes /\ [][ResNext]_vars
SpecCmp == InitCmp /\ [][CmpNext]_vars
SpecTask == InitTask /\ [][TaskNext]_vars
SpecTaskLive ==
    InitTask /\ [][TaskNext]_vars
        /\ WF_vars(WorkerStep /\ UNCHANGED TaskOthers)
SpecMem == InitMem /\ [][MemNext]_vars
SpecPlot == InitPlot /\ [][PlotNext]_vars

(***************************************************************************)
(* Claims about align_signals.                                             *)
(***************************************************************************)
Returned(out) == out.called /\ ~out.raised

\* C1 as stated: for a unit step reference and the same step delayed by d
\* (|d| within max_lag_samples, any target length), align_signals returns
\* lag = d and the two aligned slices are equal element by element.
C1_StepLagExact ==
    Returned(align_out) =>
        /\ align_out.lag = Val(delay)
        /\ align_out.aligned_ref = align_out.aligned_tgt

\* C1 amended: the same (with the default prefer_onset = true), when the
\* delay is non-zero, so that the onset lag decides, or the delay is zero and
\* the target has the reference's length.  (With d = 0 the lag is the argmax
\* of the unnormalised envelope correlation; for a shorter target the
\* maximum is tied over several non-positive lags and the first, most
\* negative one is returned.)
C1_StepLagExactAmended ==
    (/\ Returned(align_out)
     /\ prefer_onset
     /\ \/ Val(delay) # 0
        \/ Len(target) = Len(ref))
    => /\ align_out.lag = Val(delay)
       /\ align_out.aligned_ref = align_out.aligned_tgt

\* C1 witness: a negative delay recovered on buffers of different lengths,
\* with a non-empty aligned overlap that contains the step.
C1_Witness ==
    /\ Returned(align_out)
    /\ Val(delay) < 0
    /\ align_out.lag = Val(delay)
    /\ Len(target) # Len(ref)
    /\ Len(align_out.aligned_ref) >= 2
    /\ \E i \in 1..Len(align_out.aligned_ref) : align_out.aligned_ref[i] = 1
    /\ \E i \in 1..Len(align_out.aligned_ref) : align_out.aligned_ref[i] = 0

\* C2: the two returned buffers have the same length L and are consistent
\* with the returned lag: aligned_ref[i] = ref[i + max(0, -lag)] and
\* aligned_tgt[i] = target[i + max(0, lag)] for every i < L.
C2_SlicesConsistent ==
    Returned(align_out) =>
        LET L == Len(align_out.aligned_ref)
            lag == align_out.lag
        IN  /\ Len(align_out.aligned_tgt) = L
            /\ \A i \in 0..(L - 1) :
                /\ i + Max(0, -lag) < Len(ref)
                /\ i + Max(0, lag) < Len(target)
                /\ align_out.aligned_ref[i + 1] = ref[i + Max(0, -lag) + 1]
                /\ align_out.aligned_tgt[i + 1] = target[i + Max(0, lag) + 1]

\* C2 witness: a shifted, non-empty result on buffers of different lengths.
C2_Witness ==
    /\ Returned(align_out)
    /\ align_out.lag < 0
    /\ Len(ref) # Len(target)
    /\ Len(align_out.aligned_ref) >= 2
    /\ align_out.aligned_ref # align_out.aligned_tgt

\* The onset of the claim: the first raw sample whose absolute value exceeds
\* 10% of the signal's peak, index 0 if there is none.
RECURSIVE FirstAbove(_, _, _)
FirstAbove(x, i, peak) ==
    IF i >= Len(x) THEN 0
    ELSE IF 10 * Abs(x[i + 1]) > peak THEN i
    ELSE FirstAbove(x, i + 1, peak)

PeakOf(x) == CHOOSE p \in {Abs(x[i]) : i \in 1..Len(x)} :
                 \A i \in 1..Len(x) : Abs(x[i]) <= p

OnsetLagOfClaim == FirstAbove(target, 0, PeakOf(target)) - FirstAbove(ref, 0, PeakOf(ref))

\* The envelope cross-correlation lag of the claim: the least lag k, within
\* the overlap range and the window of max_lag_samples, at which the sum of
\* env_tgt[n + k] * env_ref[n] is greatest.
EnvCorrLagOfClaim ==
    LET er == smooth_abs(ref, SmoothWin)
        et == smooth_abs(target, SmoothWin)
        lags == {k \in (1 - Len(er))..(Len(et) - 1) :
                    max_lag_samples = None \/ Abs(k) <= Val(max_lag_samples)}
    IN  CHOOSE k \in lags :
            /\ \A j \in lags : CorrAt(et, er, j) <= CorrAt(et, er, k)
            /\ \A j \in lags : j < k => CorrAt(et, er, j) < CorrAt(et, er, k)

ClaimedShift(a, b, lag) ==
    LET a_cut == SubSeq(a, 1, Max(Len(a) - lag, 0))
        b_cut == SubSeq(b, lag + 1, Len(b))
        L == Min(Len(a_cut), Len(b_cut))
    IN  <<SubSeq(a_cut, 1, L), SubSeq(b_cut, 1, L)>>

\* C17 as stated: the buffers returned are the claimed shift of (ref, target)
\* by lag when lag >= 0 and, with the roles exchanged, of (target, ref) by
\* |lag| when lag < 0; so the shift of (target, ref) by -lag returns the
\* same two buffers exchanged.
C17_ShiftExact ==
    Returned(align_out) =>
        LET lag == align_out.lag
            swapped == apply_shift(target, ref, -lag)
        IN  /\ <<align_out.aligned_ref, align_out.aligned_tgt>> =
                    IF lag >= 0
                    THEN ClaimedShift(ref, target, lag)
                    ELSE <<ClaimedShift(target, ref, -lag)[2],
                           ClaimedShift(target, ref, -lag)[1]>>
            /\ swapped.aligned_ref = align_out.aligned_tgt
            /\ swapped.aligned_tgt = align_out.aligned_ref

IsPrefix(x, y) == Len(x) <= Len(y) /\ x = SubSeq(y, 1, Len(x))

\* C17, amended: for 0 <= lag <= len(ref) the buffers returned are the
\* claimed shift; for lag < 0 the reference is taken from index |lag| and the
\* target from index 0, both cut to the shorter of the two (the target does
\* not lose its last |lag| samples).  Shifting the exchanged inputs by -lag
\* returns the exchanged buffers when the inputs have the same length, and
\* otherwise buffers of which one pair is a prefix of the other.
C17_ShiftExactAmended ==
    (Returned(align_out) /\ align_out.lag <= Len(ref)) =>
        LET lag == align_out.lag
            swapped == apply_shift(target, ref, -lag)
            L == Len(align_out.aligned_ref)
        IN  /\ lag >= 0 =>
                <<align_out.aligned_ref, align_out.aligned_tgt>> = ClaimedShift(ref, target, lag)
            /\ lag < 0 =>
                /\ L = Min(Len(ref) + lag, Len(target))
                /\ align_out.aligned_ref = SubSeq(ref, 1 - lag, L - lag)
                /\ align_out.aligned_tgt = SubSeq(target, 1, L)
            /\ Len(ref) = Len(target) =>
                /\ swapped.aligned_ref = align_out.aligned_tgt
                /\ swapped.aligned_tgt = align_out.aligned_ref
            /\ -lag <= Len(target) =>
                \/ /\ IsPrefix(swapped.aligned_ref, align_out.aligned_tgt)
                   /\ IsPrefix(swapped.aligned_tgt, align_out.aligned_ref)
                \/ /\ IsPrefix(align_out.aligned_tgt, swapped.aligned_ref)
                   /\ IsPrefix(align_out.aligned_ref, swapped.aligned_tgt)

\* C17 witness: a negative lag on a longer reference, where the target keeps
\* its last samples and the exchanged call returns shorter buffers.
C17_Witness ==
    /\ Returned(align_out)
    /\ align_out.lag = -1
    /\ Len(ref) = 3
    /\ Len(target) = 2
    /\ Len(align_out.aligned_tgt) = 2
    /\ Len(apply_shift(target, ref, 1).aligned_ref) = 1

\* C18 as stated: with max_lag_samples = M supplied, the returned lag lies
\* in [-M, +M], for either value of prefer_onset.
C18_LagWithinBound ==
    (Returned(align_out) /\ max_lag_samples # None) =>
        Abs(align_out.lag) <= Val(max_lag_samples)

\* C18, amended: with max_lag_samples = M supplied, the returned lag lies in
\* [-M, +M] when prefer_onset is false or the onset lag is zero (the lag is
\* then the windowed correlation lag); otherwise it is the onset lag, which
\* M does not bound.
C18_LagWithinBoundAmended ==
    (Returned(align_out) /\ max_lag_samples # None) =>
        IF prefer_onset /\ lag_onset_of(ref, target) # 0
        THEN align_out.lag = lag_onset_of(ref, target)
        ELSE Abs(align_out.lag) <= Val(max_lag_samples)

\* C18 witness: the unwindowed correlation peaks outside the window and the
\* returned lag is inside it.
C18_Witness ==
    /\ Returned(align_out)
    /\ max_lag_samples # None
    /\ ~prefer_onset
    /\ Abs(lag_corr_of(ref, target, None)) > Val(max_lag_samples)
    /\ Abs(align_out.lag) <= Val(max_lag_samples)

(***************************************************************************)
(* Claims about gain_match.                                                *)
(***************************************************************************)
\* |a/b - c/d| <= (c/d) / tolDen for positive b, d: a/b is within a relative
\* 1/tolDen of c/d.
WithinRel(a, b, c, d, tolDen) == Abs(a * d - c * b) * tolDen <= c * b

\* The target handed back is x within tolerance: it is k * x scaled by gain,
\* and k^2 * gain^2 is within 1e-4 of 1.
MatchedIsRef(out, x, k) ==
    /\ out.matched = ScaleBy(x, k)
    /\ \A i \in 1..Len(x) : out.matched[i] * k[2] = x[i] * k[1]
    /\ WithinRel(out.gain2[1] * k[1] * k[1], out.gain2[2] * k[2] * k[2], 1, 1, 10000)

\* The gain error reported is 20*log10(k): 1/gain^2 is within 1e-4 of k^2, and
\* its sign is that of log10(k).
GainErrorIsK(out, k) ==
    /\ WithinRel(out.inv_gain2[1], out.inv_gain2[2], k[1] * k[1], k[2] * k[2], 10000)
    /\ k[1] > k[2] => out.gain_db_sign = 1
    /\ k[1] < k[2] => out.gain_db_sign = -1

\* The mean square of x is at least 1e-8 (RMS >= 1e-4): 10^4 times the 1e-12
\* added to it.
WellAboveEps(x) == Len(x) > 0 /\ SumSq(x) >= 10000 * Len(x)

\* C4 as stated: for any positive k and any non-silent x (here: x and k*x of
\* RMS >= 1e-4 over the whole buffer), gain_match(x, k*x) returns a target
\* equal to x within tolerance and a gain error of 20*log10(k), positive
\* when the target was louder, negative when quieter.
C4_GainMatchUnit ==
    (gain_out.called /\ WellAboveEps(g_ref) /\ WellAboveEps(g_target)) =>
        /\ ~gain_out.isnan
        /\ MatchedIsRef(gain_out, g_ref, scale_k)
        /\ GainErrorIsK(gain_out, scale_k)

\* The samples of x that gain_match measures.
MeasuredPart(x, region) ==
    LET rg == IF RegionIdx(Len(x), region[2]) <= RegionIdx(Len(x), region[1])
              THEN <<0, Len(x)>>
              ELSE <<RegionIdx(Len(x), region[1]), RegionIdx(Len(x), region[2])>>
    IN  SubSeq(x, rg[1] + 1, rg[2])

\* C4 amended: the same, for every x and k such that both x and k*x are
\* non-silent (RMS >= 1e-4) over the stable region that gain_match measures,
\* [int(n*s), int(n*e)) or the whole buffer when that range is empty.  (What
\* lies outside the stable region is not measured, and the 1e-12 added to each
\* mean square pulls the gain towards 1 when the measured part is silent.)
C4_GainMatchUnitAmended ==
    (/\ gain_out.called
     /\ WellAboveEps(MeasuredPart(g_ref, stable_region))
     /\ WellAboveEps(MeasuredPart(g_target, stable_region)))
    => /\ ~gain_out.isnan
       /\ MatchedIsRef(gain_out, g_ref, scale_k)
       /\ GainErrorIsK(gain_out, scale_k)

\* C4 witness: a quieter target (k = 1/2) matched over a stable region that
\* leaves out a sample of the buffer.
C4_Witness ==
    /\ gain_out.called
    /\ scale_k = <<1, 2>>
    /\ WellAboveEps(MeasuredPart(g_ref, stable_region))
    /\ WellAboveEps(MeasuredPart(g_target, stable_region))
    /\ gain_out.s_idx > 0
    /\ gain_out.e_idx < Len(g_ref)
    /\ gain_out.gain_db_sign = -1


(***************************************************************************)
(* Claims about normalize_thd_result.                                      *)
(***************************************************************************)
\* C7: normalize_thd_result never raises, whatever the types of the values
\* under the canonical keys or their aliases, and its result always holds
\* thd_db and thdn_db as floats.
C7_NormalizeNeverRaises ==
    norm_out.called =>
        /\ ~norm_out.raised
        /\ \A key \in {"thd_db", "thdn_db"} :
            /\ key \in DOMAIN norm_out.dict
            /\ norm_out.dict[key].type = "float"


\* The aliases of each canonical key, in the order of the claim.
AliasOrder(canon) ==
    IF canon = "thdn_db" THEN <<"thdn", "thdn_dB", "thd+n_db", "thd+n">> ELSE <<"thd">>

\* The value the canonical key is taken from: its own when present in the
\* input, else that of the first alias present, else nothing.
SourceOf(data, canon) ==
    IF canon \in DOMAIN data THEN Some(data[canon])
    ELSE LET order == AliasOrder(canon)
             present == {i \in 1..Len(order) : order[i] \in DOMAIN data}
         IN  IF present = {} THEN None
             ELSE Some(data[order[CHOOSE i \in present : \A j \in present : i <= j]])

NormalizedAsClaimed ==
    Returned(norm_out) =>
        /\ DOMAIN norm_out.dict = DOMAIN norm_data \cup {"thd_db", "thdn_db"}
        /\ \A canon \in {"thd_db", "thdn_db"} :
            LET src == SourceOf(norm_data, canon)
            IN  norm_out.dict[canon] =
                    IF src # None /\ Val(src).num THEN PyFloat(Val(src).v) ELSE PyFloat(0)
        /\ \A k \in DOMAIN norm_data \ {"thd_db", "thdn_db"} : norm_out.dict[k] = norm_data[k]
        /\ normalize_thd_result(norm_out.dict, 0) = norm_out

\* C28: an alias is used only when its canonical key is absent from the
\* input; among several aliases of thdn_db the first of thdn, thdn_dB,
\* thd+n_db, thd+n wins; every other key is returned unchanged; the input
\* mapping is not modified; and applying the function to its own result
\* gives that result again.
C28_AliasOnlyWhenAbsent ==
    /\ []NormalizedAsClaimed
    /\ [][norm_data' = norm_data]_vars

\* C28 witness: two aliases of thdn_db with different values and no canonical
\* key; the first in the order is the one used.
C28_Witness ==
    /\ Returned(norm_out)
    /\ DOMAIN norm_data = {"thdn_dB", "thd+n", "thd"}
    /\ norm_data["thdn_dB"] = PyFloat(2)
    /\ norm_data["thd+n"] = PyFloat(1)
    /\ norm_data["thd"] = PyNumStr(3)
    /\ norm_out.dict["thdn_db"] = PyFloat(2)
    /\ norm_out.dict["thd_db"] = PyFloat(3)

(***************************************************************************)
(* Claims about compute_thd.                                               *)
(***************************************************************************)
\* C6: compute_thd accepts exactly two window choices, hann and none; for
\* any other window value the call fails with the unsupported-window error
\* and returns no result record.
C6_TwoWindows ==
    thd_out.called =>
        (thd_out.raised <=> thd_args.window \notin {Some("hann"), Some("none")})

\* C6, amended: compute_thd accepts the windows "hann", "hanning" (reported
\* as 'hann' in the record), "none" and None; for any other window value
\* the call fails with the unsupported-window error and returns no record.
C6_WindowsAmended ==
    thd_out.called =>
        IF thd_args.window \in {Some("hann"), Some("hanning"), Some("none"), None}
        THEN /\ ~thd_out.raised
             /\ thd_out.window = IF thd_args.window = Some("hanning")
                                 THEN Some("hann") ELSE thd_args.window
        ELSE /\ thd_out.raised
             /\ thd_out.exc = "ValueError: Unsupported window"

C6_Witness ==
    /\ thd_out.called
    /\ thd_out.raised
    /\ thd_args.window = Some("blackman")


\* The bins summed for component h, from the band compute_thd used.
SummedBins(h) == {b \in 0..(Len(thd_args.power) - 1) :
                    thd_out.bands[h].start <= b /\ b < thd_out.bands[h].stop}

\* The bins within `width` of the bin nearest h*freq, without bin 0 and
\* without bins past the last one.
BinsAround(h, width) ==
    LET nbins == Len(thd_args.power)
        idx == nearest_bin(nbins, thd_args.fs, nfft_use_of(thd_args.nfft, thd_args.sig_len),
                           h * thd_args.freq)
    IN  {b \in 1..(nbins - 1) : Abs(b - idx) <= width}

\* C20 as stated: for every harmonic order h in 1..max_h and requested
\* half-width bandBins >= 0, the bins compute_thd sums for that component are
\* exactly those within bandBins of the bin nearest h*freq, clipped to the
\* spectrum, never bin 0 and never past the last bin.
C20_BandAsRequested ==
    Returned(thd_out) =>
        \A h \in 1..thd_args.max_h :
            SummedBins(h) = BinsAround(h, thd_args.fundamental_band_bins)

\* C20, amended: the same with the half-width max(1, bandBins): a requested
\* half-width of 0 is raised to 1.
C20_BandAtLeastOne ==
    Returned(thd_out) =>
        \A h \in 1..thd_args.max_h :
            /\ SummedBins(h) = BinsAround(h, Max(1, thd_args.fundamental_band_bins))
            /\ 0 \notin SummedBins(h)

\* C20 witness: a band at the low edge that stops short of bin 0 and a
\* harmonic band cut at the last bin, with a requested half-width of 2.
C20_Witness ==
    /\ Returned(thd_out)
    /\ thd_args.fundamental_band_bins = 2
    /\ thd_args.max_h >= 2
    /\ thd_out.fund_idx = 1
    /\ thd_out.bands[1].start = 1
    /\ thd_out.bands[2].stop = Len(thd_args.power)
    /\ Cardinality(SummedBins(2)) < 5
    /\ Cardinality(SummedBins(2)) >= 2

\* C23: the harmonic power accumulated for THD never exceeds the noise power
\* used for THD+N, so thd_ratio <= thdn_ratio in every result (both ratios
\* are square roots over the same fundamental power).
C23_ThdNotAboveThdn ==
    Returned(thd_out) => thd_out.thd_ratio2[1] <= thd_out.thdn_ratio2[1]

(***************************************************************************)
(* Claims about compression_curve.                                         *)
(***************************************************************************)
\* The least-squares slope of out_db against in_db, from the pairs of points:
\* <<sum over i < j of (x_i - x_j)(y_i - y_j), sum over i < j of (x_i - x_j)^2>>.
PairSlope(x, y) ==
    LET N == Len(x)
        row(i, f(_, _)) == SumFn([j \in 1..N |-> IF i < j THEN f(i, j) ELSE 0], 1, N)
        xy(i, j) == (x[i] - x[j]) * (y[i] - y[j])
        xx(i, j) == (x[i] - x[j]) * (x[i] - x[j])
    IN  <<SumFn([i \in 1..N |-> row(i, xy)], 1, N), SumFn([i \in 1..N |-> row(i, xx)], 1, N)>>

AllFinite(r) == \A i \in 1..Len(r.out_db) : ~r.out_db[i].nan
DiffOf(r, i) == r.out_db[i].v - r.in_db[i]

\* |a - 1| < 0.05 and max(diff) - min(diff) < 1.0 dB over all points.
GlobalFitPasses(r) ==
    /\ AllFinite(r)
    /\ LET a == PairSlope(r.in_db, [i \in 1..Len(r.out_db) |-> r.out_db[i].v])
       IN  a[2] > 0 /\ Abs(a[1] - a[2]) <= (a[2] - 1) \div 20
    /\ \A i, j \in 1..Len(r.in_db) : DiffOf(r, i) - DiffOf(r, j) < 10

\* Fewer than 2 points satisfy diff < -0.5 dB.
FewCompressedPoints(r) ==
    \A i, j \in 1..Len(r.in_db) :
        (/\ ~r.out_db[i].nan /\ DiffOf(r, i) < -5
         /\ ~r.out_db[j].nan /\ DiffOf(r, j) < -5) => i = j

\* C8: in every result of compression_curve, no_compression is true exactly
\* when the global-fit test passes or fewer than 2 points have diff < -0.5 dB;
\* whenever no_compression is true the threshold is NaN and the ratio is
\* exactly 1.0; gain_offset_db is mean(diff) in all cases.
C8_NoCompressionRule ==
    comp_out.called =>
        /\ comp_out.no_compression <=>
              (GlobalFitPasses(comp_out) \/ FewCompressedPoints(comp_out))
        /\ comp_out.no_compression =>
              (comp_out.thr_db.nan /\ comp_out.ratio = [e12 |-> FALSE, num |-> 1, den |-> 1])
        /\ IF AllFinite(comp_out)
           THEN /\ ~comp_out.gain_offset_db.nan
                /\ comp_out.gain_offset_db.den = Len(comp_out.in_db)
                /\ comp_out.gain_offset_db.num =
                      SumFn([i \in 1..Len(comp_out.in_db) |-> DiffOf(comp_out, i)],
                            1, Len(comp_out.in_db))
           ELSE comp_out.gain_offset_db.nan

\* A result classified no_compression by the second test alone: the global
\* fit fails, and fewer than 2 points lie below -0.5 dB.
C8_Witness ==
    /\ comp_out.called
    /\ comp_out.no_compression
    /\ AllFinite(comp_out)
    /\ ~GlobalFitPasses(comp_out)

\* C9: a stepped sweep analysed unprocessed (output identical to stimulus)
\* is classified no_compression = true.
C9_UnprocessedNoCompression ==
    (/\ comp_out.called
     /\ comp_rx.signal = comp_tone.signal) => comp_out.no_compression

\* C10: for every captured buffer, including an all-zero capture and one
\* shorter than the stimulus, in_db and out_db have one entry per level and
\* every out_db entry is finite and at least -240 dB.
C10_OutDbFiniteFloored ==
    comp_out.called =>
        /\ Len(comp_out.in_db) = NumLevels
        /\ Len(comp_out.out_db) = NumLevels
        /\ \A i \in 1..NumLevels :
            /\ ~comp_out.out_db[i].nan
            /\ comp_out.out_db[i].v >= FloorDb


\* C21: the stimulus has length 36*(seg+gap) with seg = int(0.25*fs) and gap
\* = int(0.05*fs); segment i = [i*(seg+gap), i*(seg+gap)+seg) holds only tone
\* samples of level i; the trimmed window [start+lead, start+seg-tail) lies
\* inside it and is what compression_curve measures; consecutive segments do
\* not overlap.
C21_SegmentsMatchStimulus ==
    comp_tone.called =>
        LET fs == comp_args.fs
            seg == (25 * fs) \div 100
            gap == (5 * fs) \div 100
            lead == (3 * fs) \div 100
            tail == (1 * fs) \div 100
            tx == comp_tone.signal
            meta == comp_tone.meta
        IN  /\ Len(tx) = 36 * (seg + gap)
            /\ meta.seg_samples = seg /\ meta.gap_samples = gap
            /\ meta.trim_lead = lead /\ meta.trim_tail = tail
            /\ Len(meta.amps) = 36
            /\ \A i \in 0..35 :
                LET start == i * (seg + gap)
                    level == Min(meta.amps[i + 1], comp_args.amp_max)
                IN  /\ start + seg <= Len(tx)
                    /\ \A j \in 0..(seg - 1) : tx[start + j + 1] = level * QuarterSin(j)
                    /\ \A j \in seg..(seg + gap - 1) : tx[start + j + 1] = 0
                    /\ start <= start + lead
                    /\ start + lead <= start + seg - tail
                    /\ trimmed_segment(tx, meta, i + 1)
                         = SubSeq(tx, start + lead + 1, start + seg - tail)
                    /\ i < 35 => start + seg <= (i + 1) * (seg + gap)

\* C21 witness: a sweep whose segments have a gap and a trimmed window
\* shorter than the segment, with levels that differ.
C21_Witness ==
    /\ comp_tone.called
    /\ comp_tone.meta.gap_samples > 0
    /\ comp_tone.meta.trim_lead > 0
    /\ comp_tone.meta.trim_tail > 0
    /\ Len(trimmed_segment(comp_tone.signal, comp_tone.meta, 36)) > 0
    /\ comp_tone.meta.amps[36] > comp_tone.meta.amps[1]

\* The largest absolute sample of segment i (0-based) of the stimulus.
SegmentPeak(i) ==
    LET seg == comp_tone.meta.seg_samples
        start == i * (seg + comp_tone.meta.gap_samples)
    IN  NpMax([j \in 1..seg |-> Abs(comp_tone.signal[start + j])])

\* C27: for every ceiling amp_max, the amplitude recorded for level i equals
\* the peak synthesized in segment i after the protect clamp, and no recorded
\* amplitude exceeds amp_max.
C27_RecordedIsSynthesized ==
    comp_tone.called =>
        \A i \in 1..NumLevels :
            /\ comp_tone.meta.amps[i] = SegmentPeak(i - 1)
            /\ comp_tone.meta.amps[i] <= comp_args.amp_max

\* C26: the stimulus and spec of generate_compressor_tone equal those of
\* build_stepped_tone, and on the same captured buffer and spec
\* analyze_compressor_capture and compression_curve return the same in_db,
\* out_db, gain_offset_db, no_compression, thr_db and ratio.
C26_CopiesAgree ==
    /\ (comp_tone.called /\ live_tone.called) =>
          /\ live_tone.signal = comp_tone.signal
          /\ live_tone.meta = comp_tone.meta
    /\ (comp_out.called /\ live_out.called) =>
          /\ live_out.in_db = comp_out.in_db
          /\ live_out.out_db = comp_out.out_db
          /\ live_out.gain_offset_db = comp_out.gain_offset_db
          /\ live_out.no_compression = comp_out.no_compression
          /\ live_out.thr_db = comp_out.thr_db
          /\ live_out.ratio = comp_out.ratio

\* C26 witness: both estimators have analysed the same capture and fitted a
\* line to the compressed points.
C26_Witness ==
    /\ comp_out.called
    /\ live_out.called
    /\ ~live_out.no_compression
    /\ ~live_out.thr_db.nan

(***************************************************************************)
(* Claims about attack_release_times.                                      *)
(***************************************************************************)
\* The envelope has fewer than 10 points, or its maximum is not finite, or
\* its peak is below 1e-12.
DegenerateSignal ==
    \/ Len(ar_args.sig) < 10
    \/ ar_args.bad
    \/ LET env == envelope_rms(ar_args.sig, ar_args.fs, ar_args.win_ms)
       IN  \A i \in 1..Len(env) : env[i] < PeakEps

\* C11: on a degenerate signal (fewer than 10 envelope points, a maximum
\* that is not finite, or a peak below 1e-12) attack_release_times returns a
\* record with attack_ms and release_ms both NaN.
C11_DegenerateGivesNaN ==
    (ar_out.called /\ DegenerateSignal) =>
        (ar_out.attack_ms.nan /\ ar_out.release_ms.nan)

\* A faint but not silent buffer of at least 10 samples was analysed.
C11_Witness ==
    /\ ar_out.called
    /\ Len(ar_args.sig) >= 10
    /\ ~ar_args.bad
    /\ \E i \in 1..Len(ar_args.sig) : ar_args.sig[i] # 0
    /\ DegenerateSignal
    /\ ar_out.attack_ms.nan
    /\ ar_out.release_ms.nan


\* The sum of the squares of the 2*win samples sig[i-win+1 .. i+win]
\* (0-based), samples outside the buffer counted as zero.
DirectWindowSum(sig, i, win) ==
    SumFn([k \in 1..(2 * win) |->
              LET j == i - win + k
              IN  IF j >= 0 /\ j < Len(sig) THEN sig[j + 1] * sig[j + 1] ELSE 0],
          1, 2 * win)

\* C22: the envelope has as many points as the input has samples, and the
\* square of point i times 2*win is cumsum[i+2win] - cumsum[i] over the padded
\* squares, i.e. the direct sum of the squares of the 2*win samples around i,
\* with win = max(1, int(fs*win_ms/1000)).
C22_EnvelopeIsWindowSum ==
    (ar_out.called /\ ~ar_args.bad) =>
        LET sig == ar_args.sig
            win == Max(1, (ar_args.fs * ar_args.win_ms) \div 1000)
        IN  /\ Len(ar_out.env) = Len(sig)
            /\ \A i \in 0..(Len(sig) - 1) :
                ar_out.env[i + 1] = ISqrt((DirectWindowSum(sig, i, win) * 10000) \div (2 * win))

\* C22 witness: a window of four samples that reaches past both ends of some
\* part of a buffer with non-zero samples.
C22_Witness ==
    /\ ar_out.called
    /\ ~ar_args.bad
    /\ ar_args.fs = 2000
    /\ Len(ar_args.sig) >= 5
    /\ ar_out.env[1] > 0
    /\ ar_out.env[1] < ar_out.env[3]
    /\ ar_out.env[Len(ar_args.sig)] > 0

\* C24: a non-NaN attack_ms is >= 0 and a non-NaN release_ms is >= 0, for
\* every input.
C24_TimesNotNegative ==
    ar_out.called =>
        /\ ~ar_out.attack_ms.nan => ar_out.attack_ms.num >= 0
        /\ ~ar_out.release_ms.nan => ar_out.release_ms.num >= 0

\* The envelope has at least 10 points, finite values, a peak of at least
\* 1e-12, and a middle-half median not below the medians of its first and
\* last quarters.
PlateauEnvelope ==
    /\ ~ar_args.bad
    /\ Len(ar_out.env) >= 10
    /\ \E i \in 1..Len(ar_out.env) : ar_out.env[i] >= PeakEps
    /\ LET n == Len(ar_out.env)
           first == SubSeq(ar_out.env, 1, n \div 4)
           middle == SubSeq(ar_out.env, n \div 4 + 1, (3 * n) \div 4)
           last == SubSeq(ar_out.env, (3 * n) \div 4 + 1, n)
       IN  Median2(middle) >= Median2(first) /\ Median2(middle) >= Median2(last)

\* C25: on such an envelope all four crossings are found, so attack_ms and
\* release_ms are both finite; the rising search starts at n//4 - n//10 >= 0
\* and the falling search at 3n//4 - n//10, at or before the parts they must
\* contain.
C25_CrossingsFound ==
    (ar_out.called /\ PlateauEnvelope) =>
        LET n == Len(ar_out.env)
        IN  /\ ~ar_out.attack_ms.nan
            /\ ~ar_out.release_ms.nan
            /\ ar_out.attack_ms.num >= 0
            /\ ar_out.release_ms.num >= 0
            /\ n \div 4 - n \div 10 >= 0
            /\ (3 * n) \div 4 - n \div 10 >= n \div 4
            /\ (3 * n) \div 4 - n \div 10 <= (3 * n) \div 4

\* C25 witness: a burst whose envelope rises and falls over several points.
C25_Witness ==
    /\ ar_out.called
    /\ PlateauEnvelope
    /\ ar_out.attack_ms.num > 0
    /\ ar_out.release_ms.num > 0

(***************************************************************************)
(* Claims about residual_metrics.                                          *)
(***************************************************************************)
\* The residual is at the epsilon floor: its mean square is 0, so that
\* res_rms = sqrt(1e-12), snr_db is the largest value any residual can give
\* for this reference level, and noise_floor_dbfs equals residual_rms_dbfs.
AtEpsilonFloor(out) ==
    /\ ~out.raised
    /\ out.residual_rms_dbfs.sumsq = 0
    /\ out.snr_db.res_ms.sumsq = 0
    /\ out.snr_db.ref_ms = MeanSqEps(SubSeq(res_args.ref, out.s_idx + 1, out.e_idx))
    /\ out.noise_floor_dbfs = out.residual_rms_dbfs

MeasuredCoreOfTarget ==
    LET n == Min(Len(res_args.ref), Len(res_args.tgt))
        lo == (n * res_args.stable_region[1]) \div 20
        hi == (n * res_args.stable_region[2]) \div 20
    IN  IF hi > lo THEN lo..(hi - 1) ELSE lo..(n - 1)

C19_SameMeasuredRange ==
    (/\ res_out.called
     /\ Len(res_args.ref) = Len(res_args.tgt)
     /\ Len(res_args.ref) >= 1) =>
        LET n == Len(res_args.ref)
            lo == (n * res_args.stable_region[1]) \div 20
            hi == (n * res_args.stable_region[2]) \div 20
        IN  /\ <<res_out.s_idx, res_out.e_idx>> = gain_region(n, res_args.stable_region)
            /\ res_out.s_idx < res_out.e_idx
            /\ <<res_out.s_idx, res_out.e_idx>> = IF hi > lo THEN <<lo, hi>> ELSE <<0, n>>

(***************************************************************************)
(* Claims about run_compare_cases and _analyze_pair.                       *)
(***************************************************************************)
RecordsOf(i) == {k \in 1..Len(cmp_results) : cmp_results[k].entry = i}
CallsOf(i) == {k \in 1..Len(cmp_calls) : cmp_calls[k][2] = i}

\* C13: an entry (or GUI pair) whose sample rates differ or whose files cannot
\* be read is never aligned, gain matched or analysed; the bench loop appends
\* exactly one record for it, with a skip note and no metrics, and goes on to
\* the next entry; the GUI logs the problem and returns without raising.
C13_MismatchSkipped ==
    /\ \A i \in 1..cmp_pos :
        fs_unusable(cmp_entries[i].fs_in, cmp_entries[i].fs_out) =>
            /\ CallsOf(i) = {}
            /\ Cardinality(RecordsOf(i)) = 1
            /\ \A k \in RecordsOf(i) :
                /\ cmp_results[k].notes \in {<<SkipMissing>>, <<SkipMismatch>>}
                /\ ~cmp_results[k].has_metrics
    \* the loop never stops at such an entry
    /\ cmp_raised =>
        ~fs_unusable(cmp_entries[cmp_pos + 1].fs_in, cmp_entries[cmp_pos + 1].fs_out)
    /\ (pair_out.called /\ fs_unusable(pair_args.fs_in, pair_args.fs_out)) =>
            /\ pair_out.calls = << >>
            /\ Len(pair_out.log) = 1
            /\ pair_out.log[1] \in {"read failed", "fs mismatch"}
            /\ ~pair_out.raised

\* The loop skipped a mismatched entry and then analysed the next one, and
\* the GUI refused a mismatched pair.
C13_Witness ==
    /\ Len(cmp_entries) = 2
    /\ cmp_pos = 2
    /\ cmp_entries[1].files_exist
    /\ cmp_entries[1].fs_in = Some(44100)
    /\ cmp_entries[1].fs_out = Some(48000)
    /\ cmp_results[1].notes = <<SkipMismatch>>
    /\ cmp_results[2].has_metrics
    /\ pair_out.called
    /\ pair_args.fs_in = Some(48000)
    /\ pair_args.fs_out = None


(***************************************************************************)
(* Claims about the background worker.                                     *)
(***************************************************************************)
AliveThreads == {t \in 1..Len(threads) : threads[t].pc # "done"}

\* C14: at most one worker thread is alive at any time; a start request made
\* while a worker is alive starts no thread, and a request made when none is
\* alive (none started yet, or the last one finished, normally or by a caught
\* exception) starts exactly one.
C14_OneWorker ==
    /\ Cardinality(AliveThreads) <= 1
    /\ \A k \in 1..Len(start_log) :
        /\ start_log[k].alive_before # {} => start_log[k].started = 0
        /\ start_log[k].alive_before = {} => start_log[k].started = 1
    /\ Len(threads) = Cardinality({k \in 1..Len(start_log) : start_log[k].started = 1})

\* A request was refused while a worker was alive, that worker then ended by
\* a caught exception, and the next request started a second worker.
C14_Witness ==
    /\ Len(start_log) = 3
    /\ start_log[2].busy
    /\ ~start_log[3].busy
    /\ Len(threads) = 2
    /\ threads[1].caught
    /\ threads[2].pc # "done"

Finished(t) == threads[t].pc = "done"
DidNothing(t) == ~threads[t].analysed /\ ~threads[t].persisted /\ ~threads[t].plotted
PassedBothChecks(t) == threads[t].pre_check = "clear" /\ threads[t].post_check = "clear"

\* The stop flag as the task saw it, for every thread: a check that saw the
\* flag set ended the task with nothing analysed, saved or plotted; analysis
\* only follows two checks that saw it clear.
StopOnlyAtChecks ==
    \A t \in 1..Len(threads) :
        /\ (threads[t].pre_check = "set" \/ threads[t].post_check = "set") =>
                Finished(t) /\ DidNothing(t)
        /\ ~DidNothing(t) => PassedBothChecks(t)
        /\ (Finished(t) /\ threads[t].analysed) =>
                threads[t].persisted /\ threads[t].plotted

\* C15: the stop flag is read only just before and just after the capture.
\* Set at either point, the task ends without analysis, persistence or plot;
\* clear at both, the task goes on to its analysis and finishes it whatever
\* stop requests arrive later (an analysis that does not raise is followed by
\* persistence and the plot).
C15_StopOnlyAroundCapture ==
    /\ []StopOnlyAtChecks
    /\ \A t \in 1..MaxRequests :
        (t <= Len(threads) /\ threads[t].pc = "analysis")
            ~> (t <= Len(threads) /\ Finished(t)
                /\ (threads[t].caught \/ (threads[t].analysed /\ threads[t].persisted
                                          /\ threads[t].plotted)))

\* A task passed both checks, a stop request arrived afterwards, and the
\* task still analysed, saved and plotted.
C15_Witness ==
    /\ Len(threads) = 1
    /\ PassedBothChecks(1)
    /\ stop_event
    /\ Finished(1)
    /\ threads[1].analysed /\ threads[1].persisted /\ threads[1].plotted


\* What every call of _start_thread recorded: a refused one left the flag as
\* it was, an accepted one left it clear.
StartsAsLogged ==
    \A k \in 1..Len(start_log) :
        /\ start_log[k].busy => start_log[k].stop_after = start_log[k].stop_before
        /\ ~start_log[k].busy => ~start_log[k].stop_after

\* One step of the application, seen from outside.
StartStep == Len(start_log') = Len(start_log) + 1
StartAndStopStep ==
    /\ (StartStep /\ worker_busy) =>
            /\ worker' = worker
            /\ stop_event' = stop_event
            /\ threads' = threads
    /\ (StartStep /\ ~worker_busy) =>
            /\ ~stop_event'
            /\ threads' = Append(threads, NewThread)
            /\ worker' = Some(Len(threads'))
    /\ (stop_event /\ ~stop_event') => (StartStep /\ ~worker_busy)
    /\ (~stop_event /\ stop_event') => (threads' = threads /\ start_log' = start_log)

\* C30: a start refused because a worker is alive changes neither the worker
\* reference nor the stop flag; an accepted start has cleared the flag when
\* the new worker begins, and from then on the flag is set only by a stop
\* request and, once set, stays set until the next accepted start.
C30_StartFrame ==
    /\ []StartsAsLogged
    /\ [][StartAndStopStep]_vars

\* C30 witness: a start was refused while a stop was pending, a later start
\* was accepted with the flag still set, and a stop was requested after it.
C30_Witness ==
    /\ Len(start_log) = 3
    /\ start_log[2].busy /\ start_log[2].stop_before
    /\ ~start_log[3].busy /\ start_log[3].stop_before
    /\ stop_event
    /\ threads[2].pre_check = "unseen"

(***************************************************************************)
(* Claims about the storage of inputs and outputs.                         *)
(***************************************************************************)
InputsIntact ==
    /\ Contents(mem_heap, mem_args.ref) = mem_args.ref_samples
    /\ Contents(mem_heap, mem_args.target) = mem_args.target_samples

\* C16: no analysis function changes a sample of an array passed to it, and
\* every array it returns is on storage of its own, so that a later write to
\* a returned array leaves the inputs as they were.
C16_InputsNeverShared ==
    mem_ret.called =>
        /\ InputsIntact
        /\ \A k \in 1..Len(mem_ret.arrays) :
            SizeOf(mem_ret.arrays[k]) > 0 =>
                mem_ret.arrays[k].base \notin {mem_args.ref.base, mem_args.target.base}

(***************************************************************************)
(* Claims about PlotWindowManager.                                         *)
(***************************************************************************)
\* C29: after any sequence of openings and user closes at most max_windows
\* windows are tracked; an opening made with max_windows windows tracked
\* closes exactly one window, the oldest still open, before the new one is
\* registered (an opening below the limit closes none); and a closed window is
\* never tracked again.
C29_WindowsBounded ==
    max_windows >= 1 =>
        /\ Len(windows) <= max_windows
        /\ \A i \in 1..Len(windows) : windows[i] \notin destroyed
        /\ \A i, j \in 1..Len(windows) : i < j => windows[i] < windows[j]
        /\ last_op.kind = "open" =>
            /\ Len(last_op.before) = max_windows =>
                /\ last_op.closed = {last_op.before[1]}
                /\ windows = Append(Tail(last_op.before), created)
            /\ Len(last_op.before) < max_windows =>
                /\ last_op.closed = {}
                /\ windows = Append(last_op.before, created)

\* C29 witness: an opening at capacity, after the user closed an older
\* window, has closed the oldest window that was still open.
C29_Witness ==
    /\ max_windows >= 2
    /\ last_op.kind = "open"
    /\ Len(last_op.before) = max_windows
    /\ last_op.closed # {}
    /\ \E t \in destroyed : \A c \in last_op.closed : t < c

=============================================================================
